---- MODULE Spec2Model ----
(***************************************************************************)
(* Event collection and correlation server of crates/core/src/server:      *)
(* the JSONL logger (logger.rs), the route handlers (routes.rs), the event *)
(* types (events.rs) and the watchdog / shutdown coordinator (mod.rs).     *)
(***************************************************************************)
EXTENDS Integers, Sequences, FiniteSets, TLC

(***************************************************************************)
(* Bounds of the model.                                                    *)
(***************************************************************************)
\* Request-handling tasks that can be in flight at once.
MaxReq == 2
\* Requests accepted in one run (each accepted request takes one clock tick).
MaxEvents == 2
\* The largest capacity of the logger's mpsc channel that is explored.  The
\* program's is 1000 (logger.rs:23); the model runs the server with every
\* capacity from 1 to QueueCap, so that the queue can fill and can hold
\* several events.
QueueCap == 2

\* Outbox requests that can be in flight at once.
MaxOutboxReq == 1
\* Builder methods called on one ClaudeCommand before build().
MaxCalls == 3
\* Elements of resourceMetrics in a document handed to the attribute walk.
MaxResources == 2

Slots == 1..MaxReq
OutboxSlots == 1..MaxOutboxReq

\* The largest lag the broadcast channel absorbs.  The program's channel is
\* created with 100 (mod.rs:53); the model's is small, so that a subscriber
\* can fall behind it.
InboxCap == 1
\* The clients that open an SSE stream, each once.
Subs == {"a", "b"}

(***************************************************************************)
(* serde_json::Value: a tagged value.  Objects are functions from keys to  *)
(* values, arrays are sequences.  An Option is a sequence of length <= 1.  *)
(***************************************************************************)
JStr(s) == [t |-> "str", v |-> s]
JArr(a) == [t |-> "arr", v |-> a]
JObj(o) == [t |-> "obj", v |-> o]
JNull == [t |-> "null", v |-> 0]
\* A request body that is not JSON at all.
NotJson == [t |-> "notjson", v |-> 0]

None == << >>
Some(x) == << x >>

\* Value::get(key): the member of an object, None for anything else.
Get(val, key) ==
    IF val.t = "obj" /\ key \in DOMAIN val.v THEN Some(val.v[key]) ELSE None
\* Value::as_str
AsStr(val) == IF val.t = "str" THEN Some(val.v) ELSE None
\* Value::as_array
AsArray(val) == IF val.t = "arr" THEN Some(val.v) ELSE None
\* Value::get(key).and_then(|v| v.as_str())
GetStr(val, key) ==
    IF Get(val, key) = None THEN None ELSE AsStr(Get(val, key)[1])
\* Value::get(key).and_then(|v| v.as_array())
GetArray(val, key) ==
    IF Get(val, key) = None THEN None ELSE AsArray(Get(val, key)[1])

(***************************************************************************)
(* events.rs                                                               *)
(***************************************************************************)
\* TimestampedEvent::new: the timestamp is the clock at construction.
TimestampedEvent(now, event_type, pane_id, event) ==
    [timestamp |-> now, event_type |-> event_type, pane_id |-> pane_id,
     event |-> event]

NoEvent == [timestamp |-> 0, event_type |-> "", pane_id |-> "", event |-> JNull]

\* HookEventType, deserialized under #[serde(rename_all = "snake_case")]:
\* the variant a JSON string names, None for any other string.
HookEventType_deserialize(s) ==
    CASE s = "pre_tool_use" -> Some("PreToolUse")
      [] s = "post_tool_use" -> Some("PostToolUse")
      [] s = "session_start" -> Some("SessionStart")
      [] s = "session_end" -> Some("SessionEnd")
      [] s = "stop" -> Some("Stop")
      [] s = "subagent_stop" -> Some("SubagentStop")
      [] s = "permission_request" -> Some("PermissionRequest")
      [] OTHER -> None

\* Display for HookEventType.
HookEventType_fmt(variant) ==
    CASE variant = "PreToolUse" -> "PreToolUse"
      [] variant = "PostToolUse" -> "PostToolUse"
      [] variant = "SessionStart" -> "SessionStart"
      [] variant = "SessionEnd" -> "SessionEnd"
      [] variant = "Stop" -> "Stop"
      [] variant = "SubagentStop" -> "SubagentStop"
      [] variant = "PermissionRequest" -> "PermissionRequest"

\* serde_json::from_value::<HookEvent>: an object whose "type" member is a
\* string naming a variant; the other members are flattened into data.
HookEvent_from_value(payload) ==
    IF GetStr(payload, "type") = None THEN None
    ELSE HookEventType_deserialize(GetStr(payload, "type")[1])

\* Display for OtelEventType.
OtelEventType_fmt(signal) ==
    CASE signal = "Metrics" -> "otel_metrics"
      [] signal = "Traces" -> "otel_traces"
      [] signal = "Logs" -> "otel_logs"

\* OutboxResponseType under #[serde(rename_all = "snake_case")].
OutboxResponseType_deserialize(s) ==
    CASE s = "permission_response" -> Some("PermissionResponse")
      [] s = "question_response" -> Some("QuestionResponse")
      [] OTHER -> None

\* Display for OutboxResponseType.
OutboxResponseType_fmt(variant) ==
    CASE variant = "PermissionResponse" -> "permission_response"
      [] variant = "QuestionResponse" -> "question_response"

\* Deserialize for OutboxResponse: session_id, response_type and
\* response_text are required; pane_id is an Option (absent or null: None).
\* Unknown members are ignored.
OutboxResponse_from_value(body) ==
    LET sid == GetStr(body, "session_id")
        rts == GetStr(body, "response_type")
        rty == IF rts = None THEN None
               ELSE OutboxResponseType_deserialize(rts[1])
        txt == GetStr(body, "response_text")
        pv == Get(body, "pane_id")
        paneOk == pv = None \/ pv[1].t \in {"null", "str"}
    IN  IF sid = None \/ rty = None \/ txt = None \/ ~paneOk THEN None
        ELSE Some([session_id |-> sid[1], response_type |-> rty[1],
                   response_text |-> txt[1],
                   pane_id |-> IF pv = None THEN None ELSE AsStr(pv[1])])

\* serde_json::to_value(&OutboxResponse): pane_id is skipped when None.
OutboxResponse_to_value(p) ==
    LET base == [session_id |-> JStr(p.session_id),
                 response_type |-> JStr(OutboxResponseType_fmt(p.response_type)),
                 response_text |-> JStr(p.response_text)]
    IN  IF p.pane_id = None THEN JObj(base)
        ELSE JObj([k \in DOMAIN base \cup {"pane_id"} |->
                     IF k = "pane_id" THEN JStr(p.pane_id[1]) ELSE base[k]])

(***************************************************************************)
(* logger.rs: one JSONL line per event.  A line is the list of the         *)
(* object's members in declaration order.                                  *)
(***************************************************************************)
\* serde_json::to_string(&TimestampedEvent)
to_string(event) ==
    << <<"timestamp", event.timestamp>>, <<"event_type", event.event_type>>,
       <<"pane_id", event.pane_id>>, <<"event", event.event>> >>

\* The member of a line with the given key.
Member(line, key) == (CHOOSE i \in 1..Len(line) : line[i][1] = key)

\* serde_json::from_str::<TimestampedEvent>: the reader's side of the file.
from_str(line) ==
    [timestamp |-> line[Member(line, "timestamp")][2],
     event_type |-> line[Member(line, "event_type")][2],
     pane_id |-> line[Member(line, "pane_id")][2],
     event |-> line[Member(line, "event")][2]]

\* What the writer hands to the file: the bytes of one JSON text, or b"\n".
JsonBytes(json) == [nl |-> FALSE, json |-> json]
Newline == [nl |-> TRUE, json |-> << >>]

\* The lines of a file content: the JSON texts between the newlines (a text
\* that no newline ends is not a line yet).  Two texts with no newline between
\* them share a line: such a line holds both.
RECURSIVE LinesOf(_, _)
LinesOf(bytes, cur) ==
    IF bytes = << >> THEN << >>
    ELSE IF Head(bytes).nl THEN << cur >> \o LinesOf(Tail(bytes), << >>)
    ELSE LinesOf(Tail(bytes), cur \o << Head(bytes).json >>)

(***************************************************************************)
(* routes.rs: extract_otel_session_id.  Each scan returns Some(s) for a    *)
(* match, None for no match; the scans over resourceMetrics and            *)
(* scopeMetrics also stop the whole walk (the ? operator) with Abort.      *)
(***************************************************************************)
Abort == << "abort", "abort" >>

\* A test that takes the string value of an attribute with any key.
attr_any_key(attr) ==
    IF Get(attr, "value") # None
    THEN GetStr(Get(attr, "value")[1], "stringValue")
    ELSE None

\* The condition of the innermost if: key is "session.id" and value has a
\* string member stringValue.
attr_session_id(attr) ==
    IF GetStr(attr, "key") = Some("session.id") /\ Get(attr, "value") # None
    THEN GetStr(Get(attr, "value")[1], "stringValue")
    ELSE None

RECURSIVE scan_attributes(_)
scan_attributes(attrs) ==
    IF attrs = << >> THEN None
    ELSE IF attr_session_id(Head(attrs)) # None
         THEN attr_session_id(Head(attrs))
         ELSE scan_attributes(Tail(attrs))

RECURSIVE scan_data_points(_)
scan_data_points(dps) ==
    IF dps = << >> THEN None
    ELSE LET attrs == GetArray(Head(dps), "attributes")
             hit == IF attrs = None THEN None ELSE scan_attributes(attrs[1])
         IN  IF hit # None THEN hit ELSE scan_data_points(Tail(dps))

RECURSIVE scan_metrics(_)
scan_metrics(metrics) ==
    IF metrics = << >> THEN None
    ELSE LET sum == Get(Head(metrics), "sum")
             dps == IF sum = None THEN None ELSE GetArray(sum[1], "dataPoints")
             hit == IF dps = None THEN None ELSE scan_data_points(dps[1])
         IN  IF hit # None THEN hit ELSE scan_metrics(Tail(metrics))

RECURSIVE scan_scope_metrics(_)
scan_scope_metrics(sms) ==
    IF sms = << >> THEN None
    ELSE LET metrics == GetArray(Head(sms), "metrics")
         IN  IF metrics = None THEN Abort
             ELSE IF scan_metrics(metrics[1]) # None
                  THEN scan_metrics(metrics[1])
                  ELSE scan_scope_metrics(Tail(sms))

RECURSIVE scan_resource_metrics(_)
scan_resource_metrics(rms) ==
    IF rms = << >> THEN None
    ELSE LET sms == GetArray(Head(rms), "scopeMetrics")
         IN  IF sms = None THEN Abort
             ELSE IF scan_scope_metrics(sms[1]) # None
                  THEN scan_scope_metrics(sms[1])
                  ELSE scan_resource_metrics(Tail(rms))

extract_otel_session_id(payload) ==
    LET rms == GetArray(payload, "resourceMetrics")
        got == IF rms = None THEN None ELSE scan_resource_metrics(rms[1])
    IN  IF got = Abort THEN None ELSE got

(***************************************************************************)
(* Inputs: the request bodies, pane ids and session ids the clients send.  *)
(***************************************************************************)
\* OTLP documents.
SessionAttr(s) ==
    JObj([key |-> JStr("session.id"), value |-> JObj([stringValue |-> JStr(s)])])
DataPoint(attrs) == JObj([attributes |-> JArr(attrs)])
SumMetric(dps) == JObj([sum |-> JObj([dataPoints |-> JArr(dps)])])
ScopeMetrics(metrics) == JObj([metrics |-> JArr(metrics)])
ResourceMetrics(scopes) == JObj([scopeMetrics |-> JArr(scopes)])
MetricsDoc(resources) == JObj([resourceMetrics |-> JArr(resources)])

\* A metrics document with one sum data point carrying session.id = s.
DocSession(s) ==
    MetricsDoc(<< ResourceMetrics(<< ScopeMetrics(<< SumMetric(<<
        DataPoint(<< SessionAttr(s) >>) >>) >>) >>) >>)
\* A traces document: no resourceMetrics member.
DocTraces == JObj([resourceSpans |-> JArr(<< >>)])

\* A logs document whose one log record carries session.id = s: no
\* resourceMetrics member either.
DocLogs(s) ==
    JObj([resourceLogs |-> JArr(<< JObj([scopeLogs |-> JArr(<<
        JObj([logRecords |-> JArr(<<
            JObj([attributes |-> JArr(<< SessionAttr(s) >>)]) >>)]) >>)]) >>)])

\* Attributes that are not a session id: another key, and the key with a
\* value that is not a string.
OtherAttr ==
    JObj([key |-> JStr("user.id"), value |-> JObj([stringValue |-> JStr("u1")])])
IntSessionAttr ==
    JObj([key |-> JStr("session.id"), value |-> JObj([intValue |-> JStr("7")])])
GaugeMetric(dps) == JObj([gauge |-> JObj([dataPoints |-> JArr(dps)])])
\* A resource with one scope with the one metric.
ResourceOf(metric) == ResourceMetrics(<< ScopeMetrics(<< metric >>) >>)

\* The elements of resourceMetrics the walk is handed: one with no
\* scopeMetrics, one whose scope has no metrics, sums with a session id
\* alone and behind another attribute, a gauge, a session.id that is not a
\* string, and one with no scope.
WalkResources ==
    { JObj([resource |-> JNull]),
      ResourceMetrics(<< JObj([scope |-> JNull]) >>),
      ResourceOf(SumMetric(<< DataPoint(<< SessionAttr("s1") >>) >>)),
      ResourceOf(SumMetric(<< DataPoint(<< OtherAttr, SessionAttr("s2") >>) >>)),
      ResourceOf(GaugeMetric(<< DataPoint(<< SessionAttr("s3") >>) >>)),
      ResourceOf(SumMetric(<< DataPoint(<< IntSessionAttr >>) >>)),
      ResourceMetrics(<< >>) }

\* The documents: a traces document and the metrics documents of up to
\* MaxResources of these elements.
WalkDocs ==
    { DocTraces }
    \cup { MetricsDoc(rms) :
             rms \in UNION { [1..n -> WalkResources] : n \in 0..MaxResources } }

\* Hook bodies.
HookStart(s) == JObj([type |-> JStr("session_start"), session_id |-> JStr(s)])
HookStop == JObj([type |-> JStr("stop")])
\* A hook body whose type is spelled as Display prints the kind.
HookCamel(kind, s) == JObj([type |-> JStr(kind), session_id |-> JStr(s)])
\* A hook body of a type that is no hook kind, with no session id.
HookUnknown == JObj([type |-> JStr("notification")])

\* Outbox bodies.
OutboxBody(s, text) ==
    JObj([session_id |-> JStr(s), response_type |-> JStr("permission_response"),
          response_text |-> JStr(text)])
OutboxBodyPane(s, text, pane) ==
    JObj([session_id |-> JStr(s), response_type |-> JStr("question_response"),
          response_text |-> JStr(text), pane_id |-> JStr(pane)])

\* A request: the endpoint, the OTEL signal, the pane id of the URL and the
\* body.  The router matches {pane_id} only against a non-empty segment.
Request(ep, signal, pane, body) ==
    [ep |-> ep, signal |-> signal, pane |-> pane, body |-> body]

IngestRequests ==
    { Request("hook", "", "p1", HookStart("s1")),
      Request("otel_pane", "Logs", "p2", DocTraces),
      Request("otel", "Metrics", "", DocSession("s1")),
      Request("otel", "Traces", "", DocTraces) }

OutboxRequests ==
    { Request("outbox", "", "", OutboxBody("s1", "y")),
      Request("outbox", "", "", OutboxBodyPane("", "n", "%7")),
      Request("outbox", "", "", HookStop),
      Request("outbox", "", "", NotJson) }

\* Requests that record in, or pass by, the session_to_pane table.
TableRequests ==
    { Request("hook", "", "p1", HookStart("s1")),
      Request("hook", "", "p2", HookStart("s1")),
      Request("hook", "", "p1", HookCamel("SessionStart", "s1")),
      Request("hook", "", "p2", HookUnknown),
      Request("hook", "", "p1", NotJson),
      Request("otel_pane", "Metrics", "p2", DocSession("s1")) }

HealthRequests == { Request("health", "", "", JNull) }

\* One request or more to each route: hook events with two session ids and
\* with none, direct and legacy OTEL, outbox and health.
FrameRequests ==
    { Request("hook", "", "p1", HookStart("s1")),
      Request("hook", "", "p2", HookStart("")),
      Request("hook", "", "p2", HookUnknown),
      Request("otel_pane", "Metrics", "p2", DocSession("s1")),
      Request("otel", "Metrics", "", DocSession("s1")),
      Request("outbox", "", "", OutboxBody("s1", "y")),
      Request("health", "", "", JNull) }

(***************************************************************************)
(* claude.rs: ClaudeCommand.  A string is a sequence of pieces: a word is  *)
(* one piece, and so is each of the characters the builder puts between    *)
(* words or replaces (space, comma, single quote, backslash).              *)
(***************************************************************************)
Space == << " " >>
Comma == << "," >>
Quote == << "'" >>
Backslash == << "\\" >>

\* [String]::join(sep)
RECURSIVE join(_, _)
join(strs, sep) ==
    IF strs = << >> THEN << >>
    ELSE IF Len(strs) = 1 THEN strs[1]
    ELSE strs[1] \o sep \o join(Tail(strs), sep)

\* str::replace(from, to) for a one-character pattern
RECURSIVE replace(_, _, _)
replace(str, from, to) ==
    IF str = << >> THEN << >>
    ELSE (IF << Head(str) >> = from THEN to ELSE << Head(str) >>)
         \o replace(Tail(str), from, to)

\* ClaudeCommand::new(): Self::default()
ClaudeCommand_new ==
    [allowed_tools |-> << >>, disallowed_tools |-> << >>, model |-> None,
     resume |-> None, prompt |-> None, extra_args |-> << >>]

\* The builder methods (lines 29-63).
ClaudeCommand_allowed_tools(c, tools) == [c EXCEPT !.allowed_tools = tools]
ClaudeCommand_disallowed_tools(c, tools) == [c EXCEPT !.disallowed_tools = tools]
ClaudeCommand_model(c, model) == [c EXCEPT !.model = Some(model)]
ClaudeCommand_resume(c, session_id) == [c EXCEPT !.resume = Some(session_id)]
ClaudeCommand_prompt(c, prompt) == [c EXCEPT !.prompt = Some(prompt)]
ClaudeCommand_extra_arg(c, arg) == [c EXCEPT !.extra_args = Append(@, arg)]

\* A build that pushes the prompt before the extra arguments.
ClaudeCommand_build_prompt_before_extra(c) ==
    join( << << "claude" >> >>
          \o (IF c.allowed_tools # << >>
              THEN << << "--allowedTools" >>, join(c.allowed_tools, Comma) >>
              ELSE << >>)
          \o (IF c.disallowed_tools # << >>
              THEN << << "--disallowedTools" >>, join(c.disallowed_tools, Comma) >>
              ELSE << >>)
          \o (IF c.model # None THEN << << "--model" >>, c.model[1] >> ELSE << >>)
          \o (IF c.resume # None THEN << << "--resume" >>, c.resume[1] >> ELSE << >>)
          \o (IF c.prompt # None
              THEN << Quote \o replace(c.prompt[1], Quote,
                                       Quote \o Backslash \o Quote \o Quote)
                      \o Quote >>
              ELSE << >>)
          \o c.extra_args,
          Space )

\* ClaudeCommand::build (lines 66-101): the parts pushed in turn, joined by
\* one space.
ClaudeCommand_build(c) ==
    join( << << "claude" >> >>
          \o (IF c.allowed_tools # << >>
              THEN << << "--allowedTools" >>, join(c.allowed_tools, Comma) >>
              ELSE << >>)
          \o (IF c.disallowed_tools # << >>
              THEN << << "--disallowedTools" >>, join(c.disallowed_tools, Comma) >>
              ELSE << >>)
          \o (IF c.model # None THEN << << "--model" >>, c.model[1] >> ELSE << >>)
          \o (IF c.resume # None THEN << << "--resume" >>, c.resume[1] >> ELSE << >>)
          \o c.extra_args
          \o (IF c.prompt # None
              THEN << Quote \o replace(c.prompt[1], Quote,
                                       Quote \o Backslash \o Quote \o Quote)
                      \o Quote >>
              ELSE << >>),
          Space )

\* The arguments the builder is called with.
ToolLists == { << >>, << << "Read" >> >>, << << "Read" >>, << "Write" >> >> }
DenyLists == { << >>, << << "Bash" >> >> }
Models == { << "opus" >> }
ResumeIds == { << "abc" >> }
Prompts == { << "Hello" >>, << "it", "'", "s" >> }
ExtraArgs == { << "--verbose" >>, << "-p" >> }

(***************************************************************************)
(* State.                                                                  *)
(***************************************************************************)
VARIABLES
    tmux_session,    \* AppState.tmux_session / ServerConfig.session ("": none)
    session_to_pane, \* AppState.session_to_pane: session id -> Option pane id
    table_lock,      \* the slot holding the RwLock's write guard, 0 for none
    capacity,        \* the capacity of the logger's mpsc channel
    event_q,         \* the logger's mpsc channel
    writer,          \* writer_task: "opening", "running", "exited", "cancelled"
    wbuf,            \* the BufWriter's buffer
    file,            \* the log file's content
    io_failed,       \* a file operation has failed
    inbox,           \* every event handed to inbox_tx.send, in order
    subs,            \* the SSE subscribers: the receiver and what the client got
    hook_ok,         \* session id -> the pane of the last hook event answered 200
    submitted,       \* every event the channel accepted, in order
    req,             \* the request-handling tasks
    accepted,        \* requests accepted so far
    clock,           \* Utc::now()
    tmux_keys,       \* what tmux send-keys delivered: <<target, keys>>
    response_files,  \* .axel/response_<session>.txt: session id -> Option text
    phase,           \* "Starting", "Running", "Draining", "Stopped"
    watchdog,        \* session_watchdog: "none", "polling", "done"
    session_alive,   \* whether the monitored tmux session exists
    shutdown_sent,   \* the watch channel holds an unseen value
    ctrl_c,          \* the operator interrupt arrived
    last_check,      \* the watchdog's last check: outcome, and session_alive then
    cmd,             \* a ClaudeCommand under construction
    calls,           \* the builder methods called on cmd, in order
    built,           \* Option: what build() returned
    walk_doc,        \* a document handed to extract_otel_session_id
    walk_out         \* what extract_otel_session_id returned for it

vars == << tmux_session, subs, session_to_pane, table_lock, capacity, event_q, writer,
           wbuf, file, io_failed, inbox, hook_ok, submitted, req, accepted, clock,
           tmux_keys, response_files, phase, watchdog, session_alive,
           shutdown_sent, ctrl_c, last_check, cmd, calls, built,
           walk_doc, walk_out >>

\* The state of the server.
server_vars == << tmux_session, subs, session_to_pane, table_lock, capacity, event_q,
                  writer, wbuf, file, io_failed, inbox, hook_ok, submitted, req,
                  accepted, clock, tmux_keys, response_files, phase, watchdog,
                  session_alive, shutdown_sent, ctrl_c, last_check >>

\* The state of the two pure functions checked on their own.
tool_vars == << cmd, calls, built, walk_doc, walk_out >>

logger_vars == << capacity, event_q, writer, wbuf, file, io_failed, submitted >>
life_vars == << phase, watchdog, session_alive, shutdown_sent, ctrl_c, last_check >>
outbox_vars == << tmux_keys, response_files, hook_ok >>

\* A client that has not connected to /inbox.  state: "none", "open" (the
\* stream is being served), "closed" (the client disconnected); from: the
\* events sent before the subscription; next: the receiver's position; got:
\* the data of the SSE events written to the client; at: the position of
\* each of them in the sequence of sent events; lagged: the receiver has
\* reported Lagged.
NoSubscriber ==
    [state |-> "none", from |-> 0, next |-> 0, got |-> << >>, at |-> << >>,
     lagged |-> FALSE]

\* The session ids the inputs can name.
SessionIds == {"", "s1"}

IdleSlot ==
    [pc |-> "idle", ep |-> "", signal |-> "", pane |-> "", body |-> JNull,
     event |-> NoEvent, status |-> 0, reason |-> "", delivery |-> << >>,
     expect |-> None]

\* The request of slot r is being handled.
InFlight(r) == req[r].pc \notin {"idle", "done", "panicked"}

\* The handler of slot r ends with an HTTP status and a plain-text reason.
Respond(slot, status, reason) ==
    [slot EXCEPT !.pc = "done", !.status = status, !.reason = reason]

(***************************************************************************)
(* mod.rs: run_server up to axum::serve.                                   *)
(***************************************************************************)
\* A run_server that spawns the watchdog whatever the session name.
WatchdogSpawnedAlways(session) == TRUE

\* run_server spawns session_watchdog only for a non-empty session name.
WatchdogSpawned(session) == session # ""

ServerInit ==
    /\ tmux_session \in {"", "main"}
    /\ session_to_pane = [s \in SessionIds |-> None]
    /\ table_lock = 0
    /\ capacity \in 1..QueueCap
    /\ event_q = << >>
    /\ writer = "opening"
    /\ wbuf = << >>
    /\ file = << >>
    /\ io_failed = FALSE
    /\ inbox = << >>
    /\ subs = [k \in Subs |-> NoSubscriber]
    /\ hook_ok = [s \in SessionIds |-> None]
    /\ submitted = << >>
    /\ req = [r \in Slots |-> IdleSlot]
    /\ accepted = 0
    /\ clock = 1
    /\ tmux_keys = << >>
    /\ response_files = [s \in SessionIds |-> None]
    /\ phase = "Starting"
    /\ watchdog = IF WatchdogSpawned(tmux_session) THEN "polling" ELSE "none"
    /\ session_alive = (tmux_session # "")
    /\ shutdown_sent = FALSE
    /\ ctrl_c = FALSE
    /\ last_check = [outcome |-> "none", alive |-> FALSE]

\* No ClaudeCommand is under construction.
ClaudeIdle ==
    /\ cmd = ClaudeCommand_new
    /\ calls = << >>
    /\ built = None

\* No document has been handed to the attribute walk.
WalkIdle ==
    /\ walk_doc = JNull
    /\ walk_out = None

Init == ServerInit /\ ClaudeIdle /\ WalkIdle

(***************************************************************************)
(* The listener accepts a connection and the Json extractor reads the     *)
(* body: a body that is not JSON is answered 400 and a body that is not    *)
(* the handler's type 422, before the handler runs.                        *)
(***************************************************************************)
\* An extractor that also reads a hook body as a HookEvent and answers 422
\* to a body that is none (Json<HookEvent> in place of Json<Value>).
JsonRejection_typed_hook(q) ==
    IF q.ep = "health" THEN 0
    ELSE IF q.body = NotJson THEN 400
    ELSE IF q.ep = "outbox" /\ OutboxResponse_from_value(q.body) = None THEN 422
    ELSE IF q.ep = "hook" /\ HookEvent_from_value(q.body) = None THEN 422
    ELSE 0

JsonRejection(q) ==
    IF q.ep = "health" THEN 0
    ELSE IF q.body = NotJson THEN 400
    ELSE IF q.ep = "outbox" /\ OutboxResponse_from_value(q.body) = None THEN 422
    ELSE 0

\* For a legacy OTEL request: the pane of the last hook event that carried the
\* document's session id and had been answered 200 when the request arrived.
Expected(q) ==
    LET sid == extract_otel_session_id(q.body)
    IN  IF q.ep = "otel" /\ sid # None /\ sid[1] \in SessionIds
        THEN hook_ok[sid[1]] ELSE None

\* A listener that goes on accepting while the server drains.
listener_accepts_while_draining(p) == p \in {"Running", "Draining"}

\* axum::serve accepts connections from its first poll until the future of
\* with_graceful_shutdown completes (mod.rs:89-91).
listener_accepts(p) == p = "Running"

Accept(r, menu) ==
    /\ listener_accepts(phase)
    /\ ~InFlight(r)
    /\ \A other \in Slots : other < r => InFlight(other)
    /\ accepted < MaxEvents
    /\ \E q \in menu :
         LET slot == [IdleSlot EXCEPT !.pc = "start", !.ep = q.ep,
                        !.signal = q.signal, !.pane = q.pane, !.body = q.body,
                        !.expect = Expected(q)]
         IN  req' = [req EXCEPT ![r] =
                       IF JsonRejection(q) # 0
                       THEN Respond(slot, JsonRejection(q), "rejected")
                       ELSE slot]
    /\ accepted' = accepted + 1
    /\ UNCHANGED tool_vars
    /\ UNCHANGED << tmux_session, subs, session_to_pane, table_lock, inbox, clock >>
    /\ UNCHANGED << logger_vars, life_vars, outbox_vars >>

\* routes.rs: health_check.
health_check(r) ==
    /\ req[r].pc = "start" /\ req[r].ep = "health"
    /\ req' = [req EXCEPT ![r] = Respond(@, 200, "OK")]
    /\ UNCHANGED tool_vars
    /\ UNCHANGED << tmux_session, subs, session_to_pane, table_lock, inbox, accepted,
                    clock >>
    /\ UNCHANGED << logger_vars, life_vars, outbox_vars >>

(***************************************************************************)
(* state.event_tx.send(event.clone()).await and state.inbox_tx.send(event) *)
(***************************************************************************)
\* A handle_outbox that injects into tmux whether a session is configured or
\* not.
outbox_delivery_tmux_only(session) == "send_text"

\* Where handle_outbox goes after the broadcast (line 140).
outbox_delivery(session) == IF session # "" THEN "send_text" ELSE "write_file"

\* A handle_outbox that delivers before it broadcasts.
outbox_after_send_delivers(session) == outbox_delivery(session)

\* Where handle_outbox goes once the logger has the event: to the broadcast
\* of line 137.
outbox_after_send(session) == "bcast"

\* The channel is closed once the receiver is dropped: writer_task returned,
\* or was cancelled.
Closed == writer \in {"exited", "cancelled"}

\* A channel that hands out the newest event first.
mpsc_push_front(q, event) == << event >> \o q

\* mpsc::Sender::send on a channel with room.
mpsc_push(q, event) == Append(q, event)

\* A handler that drops the result of the logger's send as it drops the
\* broadcast's, and goes on to broadcast.
event_tx_send_err_ignored(slot) == [slot EXCEPT !.pc = "bcast"]

\* if state.event_tx.send(event.clone()).await.is_err() { return (500, ..) }
\* The same three lines in handle_hook_event, handle_outbox,
\* handle_otel_event_with_pane and handle_otel_event.
event_tx_send_err(slot) == Respond(slot, 500, "Failed to log event")

\* The first poll of send().await by the handler of slot r: an error on a
\* closed channel, the event queued when there is room, and otherwise the
\* handler is suspended until the writer makes room.
event_tx_send(r, slot, event) ==
    IF Closed
    THEN /\ req' = [req EXCEPT ![r] = event_tx_send_err([slot EXCEPT !.event = event])]
         /\ UNCHANGED << event_q, submitted >>
    ELSE IF Len(event_q) < capacity
    THEN /\ event_q' = mpsc_push(event_q, event)
         /\ submitted' = Append(submitted, event)
         /\ req' = [req EXCEPT ![r] =
                      [slot EXCEPT !.event = event,
                                   !.pc = IF slot.ep = "outbox"
                                          THEN outbox_after_send(tmux_session)
                                          ELSE "bcast"]]
    ELSE /\ req' = [req EXCEPT ![r] =
                      [slot EXCEPT !.event = event, !.pc = "send_wait"]]
         /\ UNCHANGED << event_q, submitted >>

\* A handler suspended in send().await is woken: by room in the queue, or by
\* the channel closing.
event_tx_send_wake(r) ==
    /\ req[r].pc = "send_wait"
    /\ Closed \/ Len(event_q) < capacity
    /\ event_tx_send(r, req[r], req[r].event)
    /\ UNCHANGED tool_vars
    /\ UNCHANGED << tmux_session, subs, session_to_pane, table_lock, inbox, accepted,
                    clock, capacity, writer, wbuf, file, io_failed >>
    /\ UNCHANGED << life_vars, outbox_vars >>

\* broadcast::Sender::send returns Err when no receiver is subscribed.
broadcast_send_is_err(subscribers) ==
    \A k \in DOMAIN subscribers : subscribers[k].state # "open"

\* A handler that answers 500 when the broadcast reached no subscriber.
publish_status_checked(send_is_err) == IF send_is_err THEN 500 ELSE 200

\* The handler drops the result of the broadcast (let _ =) and answers OK.
publish_status(send_is_err) == 200

\* let _ = state.inbox_tx.send(event); (StatusCode::OK, "OK")
\* The tail of handle_hook_event, handle_otel_event_with_pane and
\* handle_otel_event.
inbox_tx_send(r) ==
    /\ req[r].pc = "bcast" /\ req[r].ep # "outbox"
    /\ inbox' = Append(inbox, req[r].event)
    /\ req' = [req EXCEPT ![r] =
                 Respond(@, publish_status(broadcast_send_is_err(subs)), "OK")]
    /\ hook_ok' = IF req[r].ep = "hook" /\ GetStr(req[r].body, "session_id") # None
                  THEN [hook_ok EXCEPT ![GetStr(req[r].body, "session_id")[1]] =
                          Some(req[r].pane)]
                  ELSE hook_ok
    /\ UNCHANGED tool_vars
    /\ UNCHANGED << tmux_session, subs, session_to_pane, table_lock, accepted, clock,
                    tmux_keys, response_files >>
    /\ UNCHANGED << logger_vars, life_vars >>

(***************************************************************************)
(* routes.rs: handle_inbox_sse.  The broadcast channel keeps the last      *)
(* InboxCap values sent; a receiver starts after the last value sent       *)
(* before it subscribed.                                                   *)
(***************************************************************************)
\* state.inbox_tx.subscribe() (line 59) and the stream handed to Sse::new.
handle_inbox_sse(k) ==
    /\ listener_accepts(phase)
    /\ subs[k].state = "none"
    /\ subs' = [subs EXCEPT ![k] =
                  [NoSubscriber EXCEPT !.state = "open", !.from = Len(inbox),
                                       !.next = Len(inbox) + 1]]
    /\ UNCHANGED tool_vars
    /\ UNCHANGED << tmux_session, session_to_pane, table_lock, inbox, req,
                    accepted, clock >>
    /\ UNCHANGED << logger_vars, life_vars, outbox_vars >>

\* The position of the oldest value the channel still holds.
oldest_retained(len, cap) == IF len > cap THEN len - cap + 1 ELSE 1

\* A filter that lets no event through (as if to_string always failed).
sse_frame_none(event) == None

\* The closure of filter_map for Ok(event) (lines 62-67): the event's JSON
\* text as the data of one SSE event.
sse_frame(event) == Some(to_string(event))

\* A receiver that does not move on after a value.
recv_stays(next) == next

\* The receiver's position after it has returned a value.
recv_advance(next) == next + 1

\* The stream of subscriber k is polled with a value to take: a receiver
\* whose next value has been overwritten returns Lagged and moves to the
\* oldest value held, which the filter skips (line 69); otherwise the value
\* is returned and its frame written to the client.
sse_recv(k) ==
    /\ subs[k].state = "open"
    /\ subs[k].next <= Len(inbox)
    /\ subs' = [subs EXCEPT ![k] =
         IF subs[k].next < oldest_retained(Len(inbox), InboxCap)
         THEN [@ EXCEPT !.next = oldest_retained(Len(inbox), InboxCap),
                        !.lagged = TRUE]
         ELSE [@ EXCEPT !.next = recv_advance(subs[k].next),
                        !.got = @ \o sse_frame(inbox[subs[k].next]),
                        !.at = IF sse_frame(inbox[subs[k].next]) = None
                               THEN @ ELSE Append(@, subs[k].next)]]
    /\ UNCHANGED tool_vars
    /\ UNCHANGED << tmux_session, session_to_pane, table_lock, inbox, req,
                    accepted, clock >>
    /\ UNCHANGED << logger_vars, life_vars, outbox_vars >>

\* The client of subscriber k disconnects: the stream and its receiver are
\* dropped.
sse_disconnect(k) ==
    /\ subs[k].state = "open"
    /\ subs' = [subs EXCEPT ![k].state = "closed"]
    /\ UNCHANGED tool_vars
    /\ UNCHANGED << tmux_session, session_to_pane, table_lock, inbox, req,
                    accepted, clock >>
    /\ UNCHANGED << logger_vars, life_vars, outbox_vars >>

(***************************************************************************)
(* routes.rs: handle_hook_event                                            *)
(***************************************************************************)
hook_event_type(payload) ==
    IF HookEvent_from_value(payload) # None
    THEN HookEventType_fmt(HookEvent_from_value(payload)[1])
    ELSE "unknown_hook"

\* An insert into a table that holds one entry: the others are evicted.
mapping_insert_evicting(mapping, session_id, pane_id) ==
    [s \in DOMAIN mapping |-> IF s = session_id THEN Some(pane_id) ELSE None]

\* A handler that takes the lock and records nothing.
mapping_insert_skipped(mapping, session_id, pane_id) == mapping

\* An insert that keeps the entry a session id already has.
mapping_insert_if_absent(mapping, session_id, pane_id) ==
    IF mapping[session_id] = None
    THEN [mapping EXCEPT ![session_id] = Some(pane_id)]
    ELSE mapping

\* HashMap::insert (line 91): the entry of the key is set, or replaced.
mapping_insert(mapping, session_id, pane_id) ==
    [mapping EXCEPT ![session_id] = Some(pane_id)]

\* The body carries a string session_id: take the write lock and insert.
handle_hook_event_record(r) ==
    /\ req[r].pc = "start" /\ req[r].ep = "hook"
    /\ GetStr(req[r].body, "session_id") # None
    /\ table_lock = 0
    /\ table_lock' = r
    /\ session_to_pane' =
         mapping_insert(session_to_pane, GetStr(req[r].body, "session_id")[1],
                        req[r].pane)
    /\ req' = [req EXCEPT ![r].pc = "locked"]
    /\ UNCHANGED tool_vars
    /\ UNCHANGED << tmux_session, subs, inbox, accepted, clock >>
    /\ UNCHANGED << logger_vars, life_vars, outbox_vars >>

\* A guard bound in the handler's body: it lives until the handler returns.
write_guard_kept(lock) == lock

\* `mapping` is a local of the if-let block (lines 89-92): the guard is
\* dropped, and the lock released, where the block ends.
write_guard_scope_end(lock) == 0

\* The guard is dropped at the end of the if; the event is built and sent.
handle_hook_event_send(r) ==
    /\ \/ req[r].pc = "locked"
       \/ /\ req[r].pc = "start" /\ req[r].ep = "hook"
          /\ GetStr(req[r].body, "session_id") = None
    /\ table_lock' = IF req[r].pc = "locked"
                     THEN write_guard_scope_end(table_lock)
                     ELSE table_lock
    /\ event_tx_send(r, req[r],
         TimestampedEvent(clock, hook_event_type(req[r].body), req[r].pane,
                          req[r].body))
    /\ clock' = clock + 1
    /\ UNCHANGED tool_vars
    /\ UNCHANGED << tmux_session, subs, session_to_pane, inbox, accepted, capacity,
                    writer, wbuf, file, io_failed >>
    /\ UNCHANGED << life_vars, outbox_vars >>

(***************************************************************************)
(* routes.rs: the table lookup of handle_otel_event (lines 288-311)        *)
(***************************************************************************)
\* RwLock::blocking_read blocks the thread on the lock.  The handlers are
\* tasks of the tokio runtime (axum::serve under run_server), and tokio
\* panics when a thread that drives tasks is asked to block.
blocking_read_panics == TRUE

\* A lookup that, given no session id, files the event under the pane of a
\* session the table knows.
resolve_pane_by_known_session(session_id_opt, mapping) ==
    IF session_id_opt # None
    THEN IF session_id_opt[1] \in DOMAIN mapping
            /\ mapping[session_id_opt[1]] # None
         THEN mapping[session_id_opt[1]][1]
         ELSE "otel"
    ELSE IF \E s \in DOMAIN mapping : mapping[s] # None
         THEN mapping[CHOOSE s \in DOMAIN mapping : mapping[s] # None][1]
         ELSE "otel"

\* The pane id of lines 288-311, given the lock's content.
resolve_pane(session_id_opt, mapping) ==
    IF session_id_opt # None
    THEN IF session_id_opt[1] \in DOMAIN mapping
            /\ mapping[session_id_opt[1]] # None
         THEN mapping[session_id_opt[1]][1]
         ELSE "otel"
    ELSE "otel"

(***************************************************************************)
(* routes.rs: handle_otel_event_with_pane (the three /v1/<signal>/{pane})  *)
(***************************************************************************)
\* A handler that looks the payload's session id up, as handle_otel_event
\* does, and ignores the pane id of the URL.
with_pane_pane_id_by_table(pane_id, payload, mapping) ==
    resolve_pane(extract_otel_session_id(payload), mapping)

\* The pane id of the event (line 266): the pane_id argument, as it came
\* from the URL; neither the payload nor the table is consulted.
with_pane_pane_id(pane_id, payload, mapping) == pane_id

handle_otel_event_with_pane(r) ==
    /\ req[r].pc = "start" /\ req[r].ep = "otel_pane"
    /\ event_tx_send(r, req[r],
         TimestampedEvent(clock, OtelEventType_fmt(req[r].signal),
                          with_pane_pane_id(req[r].pane, req[r].body,
                                            session_to_pane),
                          req[r].body))
    /\ clock' = clock + 1
    /\ UNCHANGED tool_vars
    /\ UNCHANGED << tmux_session, subs, session_to_pane, table_lock, inbox, accepted,
                    capacity, writer, wbuf, file, io_failed >>
    /\ UNCHANGED << life_vars, outbox_vars >>

(***************************************************************************)
(* routes.rs: handle_otel_event (the three legacy /v1/<signal>)            *)
(***************************************************************************)
handle_otel_event(r) ==
    /\ req[r].pc = "start" /\ req[r].ep = "otel"
    /\ LET session_id_opt == extract_otel_session_id(req[r].body)
       IN  IF session_id_opt # None /\ blocking_read_panics
           THEN /\ req' = [req EXCEPT ![r].pc = "panicked"]
                /\ UNCHANGED << event_q, submitted, clock >>
           ELSE /\ session_id_opt # None => table_lock = 0
                /\ event_tx_send(r, req[r],
                     TimestampedEvent(clock, OtelEventType_fmt(req[r].signal),
                                      resolve_pane(session_id_opt, session_to_pane),
                                      req[r].body))
                /\ clock' = clock + 1
    /\ UNCHANGED tool_vars
    /\ UNCHANGED << tmux_session, subs, session_to_pane, table_lock, inbox, accepted,
                    capacity, writer, wbuf, file, io_failed >>
    /\ UNCHANGED << life_vars, outbox_vars >>

(***************************************************************************)
(* routes.rs: handle_outbox                                                *)
(***************************************************************************)
\* The tmux target: the request's pane id, or pane 1 of the session's first
\* window (format!("{}:0.1", tmux_session)).
outbox_target(payload, session) ==
    IF payload.pane_id # None THEN << payload.pane_id[1] >>
    ELSE << session, ":0.1" >>

OutboxPayload(r) == OutboxResponse_from_value(req[r].body)[1]

\* Lines 118-134: the event is keyed by the payload's session_id and sent.
handle_outbox(r) ==
    /\ req[r].pc = "start" /\ req[r].ep = "outbox"
    /\ event_tx_send(r, req[r],
         TimestampedEvent(clock,
                          OutboxResponseType_fmt(OutboxPayload(r).response_type),
                          OutboxPayload(r).session_id,
                          OutboxResponse_to_value(OutboxPayload(r))))
    /\ clock' = clock + 1
    /\ UNCHANGED tool_vars
    /\ UNCHANGED << tmux_session, subs, session_to_pane, table_lock, inbox, accepted,
                    capacity, writer, wbuf, file, io_failed >>
    /\ UNCHANGED << life_vars, outbox_vars >>

\* Line 137: the broadcast, before any delivery.
handle_outbox_broadcast(r) ==
    /\ req[r].pc = "bcast" /\ req[r].ep = "outbox"
    /\ inbox' = Append(inbox, req[r].event)
    /\ req' = [req EXCEPT ![r].pc = outbox_delivery(tmux_session)]
    /\ UNCHANGED tool_vars
    /\ UNCHANGED << tmux_session, subs, session_to_pane, table_lock, accepted, clock >>
    /\ UNCHANGED << logger_vars, life_vars, outbox_vars >>

\* Command::output(): "ok" the command ran and exited 0, "failed" it ran and
\* exited non-zero (tmux finds no such target), "error" it could not be run.
CommandOutcomes == {"ok", "failed", "error"}

\* What handle_outbox answers to the outcome of a tmux command: only Err is
\* looked at (if let Err(e) = text_result).
tmux_result_is_err(outcome) == outcome = "error"

\* Lines 150-161: tmux send-keys -t target -l response_text.
handle_outbox_send_text(r, outcome) ==
    /\ req[r].pc = "send_text"
    /\ tmux_keys' = IF outcome = "ok"
                    THEN Append(tmux_keys,
                                << outbox_target(OutboxPayload(r), tmux_session),
                                   "-l", OutboxPayload(r).response_text >>)
                    ELSE tmux_keys
    /\ req' = [req EXCEPT ![r] =
                 IF tmux_result_is_err(outcome)
                 THEN Respond([@ EXCEPT !.delivery = Append(@, outcome)], 500,
                              "Failed to send response to tmux")
                 ELSE [@ EXCEPT !.delivery = Append(@, outcome),
                                !.pc = "send_enter"]]
    /\ UNCHANGED tool_vars
    /\ UNCHANGED << tmux_session, subs, session_to_pane, table_lock, inbox, accepted,
                    clock, response_files, hook_ok >>
    /\ UNCHANGED << logger_vars, life_vars >>

\* Lines 163-174: tmux send-keys -t target Enter.
handle_outbox_send_enter(r, outcome) ==
    /\ req[r].pc = "send_enter"
    /\ tmux_keys' = IF outcome = "ok"
                    THEN Append(tmux_keys,
                                << outbox_target(OutboxPayload(r), tmux_session),
                                   "", "Enter" >>)
                    ELSE tmux_keys
    /\ req' = [req EXCEPT ![r] =
                 IF tmux_result_is_err(outcome)
                 THEN Respond([@ EXCEPT !.delivery = Append(@, outcome)], 500,
                              "Failed to send response to tmux")
                 ELSE Respond([@ EXCEPT !.delivery = Append(@, outcome)], 200, "OK")]
    /\ UNCHANGED tool_vars
    /\ UNCHANGED << tmux_session, subs, session_to_pane, table_lock, inbox, accepted,
                    clock, response_files, hook_ok >>
    /\ UNCHANGED << logger_vars, life_vars >>

\* Lines 176-196: create_dir_all(".axel"), then fs::write of the response
\* file of the session; "error" is either of them failing.
handle_outbox_write_file(r, outcome) ==
    /\ req[r].pc = "write_file"
    /\ outcome \in {"ok", "error"}
    /\ response_files' =
         IF outcome = "ok"
         THEN [response_files EXCEPT ![OutboxPayload(r).session_id] =
                 Some(OutboxPayload(r).response_text)]
         ELSE response_files
    /\ req' = [req EXCEPT ![r] =
                 IF outcome = "ok"
                 THEN Respond([@ EXCEPT !.delivery = Append(@, outcome)], 200, "OK")
                 ELSE Respond([@ EXCEPT !.delivery = Append(@, outcome)], 500,
                              "Failed to write response file")]
    /\ UNCHANGED tool_vars
    /\ UNCHANGED << tmux_session, subs, session_to_pane, table_lock, inbox, accepted,
                    clock, tmux_keys, hook_ok >>
    /\ UNCHANGED << logger_vars, life_vars >>

(***************************************************************************)
(* logger.rs: writer_task                                                  *)
(***************************************************************************)
\* Lines 45-56: the file is opened; on failure the task returns, which drops
\* the receiver and the events queued so far.
writer_task_open(ok) ==
    /\ writer = "opening"
    /\ writer' = IF ok THEN "running" ELSE "exited"
    /\ event_q' = IF ok THEN event_q ELSE << >>
    /\ io_failed' = (io_failed \/ ~ok)
    /\ UNCHANGED tool_vars
    /\ UNCHANGED << tmux_session, subs, session_to_pane, table_lock, inbox, req,
                    accepted, clock, capacity, wbuf, file, submitted >>
    /\ UNCHANGED << life_vars, outbox_vars >>

\* rx.recv(): the oldest event of the queue.
mpsc_recv(q) == Head(q)

WriteOutcomes == {"ok", "write_json_err", "write_newline_err", "flush_err"}

\* What the BufWriter holds after one turn of the loop (lines 61-79): a
\* failed write_all of the JSON text adds nothing, a failed write of the
\* newline leaves the text without its newline, and a flush empties it unless
\* it fails.
writer_buffer(buf, json, outcome) ==
    CASE outcome = "ok" -> << >>
      [] outcome = "write_json_err" -> buf
      [] outcome = "write_newline_err" -> buf \o << JsonBytes(json) >>
      [] outcome = "flush_err" -> buf \o << JsonBytes(json), Newline >>

\* What a successful flush appends to the file.
writer_flushed(buf, json) == buf \o << JsonBytes(json), Newline >>

\* A writer whose loop returns at the first write or flush error.
writer_loop_returns_on_error(outcome) ==
    IF outcome = "ok" THEN "running" ELSE "exited"

\* Where the writer is after one turn of the loop: each error arm logs and
\* continues (lines 64-65, 68-69) or falls through (line 73), none returns.
writer_loop(outcome) == "running"

\* Lines 60-80: one turn of while let Some(event) = rx.recv().await.
writer_task_recv(outcome) ==
    /\ writer = "running"
    /\ event_q # << >>
    /\ event_q' = Tail(event_q)
    /\ writer' = writer_loop(outcome)
    /\ wbuf' = writer_buffer(wbuf, to_string(mpsc_recv(event_q)), outcome)
    /\ file' = IF outcome = "ok"
               THEN file \o writer_flushed(wbuf, to_string(mpsc_recv(event_q)))
               ELSE file
    /\ io_failed' = (io_failed \/ outcome # "ok")
    /\ UNCHANGED tool_vars
    /\ UNCHANGED << tmux_session, subs, session_to_pane, table_lock, inbox, req,
                    accepted, clock, capacity, submitted >>
    /\ UNCHANGED << life_vars, outbox_vars >>

\* The senders of the queue are the EventLogger's tx and its clone in
\* AppState (mod.rs:50, 65): both live until run_server returns.
SendersDropped == phase = "Stopped"

\* Line 60 with the queue empty and every sender dropped: rx.recv() returns
\* None, the loop ends and the task returns.
writer_task_end ==
    /\ writer = "running"
    /\ event_q = << >>
    /\ SendersDropped
    /\ writer' = "exited"
    /\ UNCHANGED tool_vars
    /\ UNCHANGED << tmux_session, subs, session_to_pane, table_lock, inbox, req,
                    accepted, clock, capacity, event_q, wbuf, file, io_failed,
                    submitted >>
    /\ UNCHANGED << life_vars, outbox_vars >>

\* The caller of run_server drops the runtime once run_server has returned
\* (cli: commands/server.rs:41 returns from main, commands/session.rs:1135-1141
\* ends block_on): the writer task, spawned detached (logger.rs:26), is
\* cancelled wherever it is, at any moment after the return.
runtime_dropped ==
    /\ phase = "Stopped"
    /\ writer \in {"opening", "running"}
    /\ writer' = "cancelled"
    /\ UNCHANGED tool_vars
    /\ UNCHANGED << tmux_session, subs, session_to_pane, table_lock, inbox, req,
                    accepted, clock, capacity, event_q, wbuf, file, io_failed,
                    submitted >>
    /\ UNCHANGED << life_vars, outbox_vars >>

(***************************************************************************)
(* mod.rs: session_watchdog, shutdown_signal, axum::serve                  *)
(***************************************************************************)
\* A receiver that marks the channel's value as seen when it starts to wait:
\* a value sent earlier no longer counts as a change.
watch_seen_at_wait(sent) == FALSE

\* The receiver of watch::channel(false) is created with the channel (line
\* 73), before the watchdog is spawned, and nothing reads it until
\* shutdown_signal calls rx.changed(): a value sent in between is still
\* unseen when the wait starts.
watch_unseen_at_wait(sent) == sent

\* axum::serve is first polled: the listener starts to accept and
\* shutdown_signal starts to wait.
serve_start ==
    /\ phase = "Starting"
    /\ phase' = "Running"
    /\ shutdown_sent' = watch_unseen_at_wait(shutdown_sent)
    /\ UNCHANGED tool_vars
    /\ UNCHANGED << tmux_session, subs, session_to_pane, table_lock, inbox, req,
                    accepted, clock, watchdog, session_alive, ctrl_c,
                    last_check >>
    /\ UNCHANGED << logger_vars, outbox_vars >>

\* The monitored tmux session ends.
session_ends ==
    /\ session_alive
    /\ phase # "Stopped"
    /\ session_alive' = FALSE
    /\ UNCHANGED tool_vars
    /\ UNCHANGED << tmux_session, subs, session_to_pane, table_lock, inbox, req,
                    accepted, clock, phase, watchdog, shutdown_sent, ctrl_c,
                    last_check >>
    /\ UNCHANGED << logger_vars, outbox_vars >>

\* A watchdog that takes a check it could not run for an absent session.
watchdog_signals_on_error(outcome) == outcome \in {"failed", "error"}

\* The arm of the match (lines 108-121) the check's output takes: the signal
\* is sent for a check that ran and did not succeed.
watchdog_signals(outcome) == outcome = "failed"

\* A loop without the break after the send: the watchdog polls on.
watchdog_loop_no_break(outcome) == "polling"

\* Where the loop is after the match: the arm that sends also breaks (line
\* 112), the other arms fall through to the next turn.
watchdog_loop(outcome) == IF watchdog_signals(outcome) THEN "done" ELSE "polling"

\* One turn of the watchdog's loop: sleep, tmux has-session, match.  tmux
\* succeeds only for a session that exists.  The send reaches the receiver
\* while shutdown_signal still holds it.
session_watchdog(outcome) ==
    /\ watchdog = "polling"
    /\ phase # "Stopped"
    /\ outcome = "ok" => session_alive
    /\ last_check' = [outcome |-> outcome, alive |-> session_alive]
    /\ watchdog' = watchdog_loop(outcome)
    /\ shutdown_sent' = IF watchdog_signals(outcome) /\ phase \in {"Starting", "Running"}
                        THEN TRUE ELSE shutdown_sent
    /\ UNCHANGED tool_vars
    /\ UNCHANGED << tmux_session, subs, session_to_pane, table_lock, inbox, req,
                    accepted, clock, phase, session_alive, ctrl_c >>
    /\ UNCHANGED << logger_vars, outbox_vars >>

\* The operator presses Ctrl+C while the server runs.
ctrl_c_arrives ==
    /\ phase \in {"Running", "Draining"}
    /\ ~ctrl_c
    /\ ctrl_c' = TRUE
    /\ UNCHANGED tool_vars
    /\ UNCHANGED << tmux_session, subs, session_to_pane, table_lock, inbox, req,
                    accepted, clock, phase, watchdog, session_alive,
                    shutdown_sent, last_check >>
    /\ UNCHANGED << logger_vars, outbox_vars >>

\* A select that waits for Ctrl+C alone.
shutdown_ready_ctrl_c_only == ctrl_c

\* shutdown_signal's select: ready on Ctrl+C or on rx.changed().
shutdown_ready == ctrl_c \/ shutdown_sent

\* shutdown_signal completes and axum stops accepting connections.
shutdown_signal ==
    /\ phase = "Running"
    /\ shutdown_ready
    /\ phase' = "Draining"
    /\ UNCHANGED tool_vars
    /\ UNCHANGED << tmux_session, subs, session_to_pane, table_lock, inbox, req,
                    accepted, clock, watchdog, session_alive, shutdown_sent,
                    ctrl_c, last_check >>
    /\ UNCHANGED << logger_vars, outbox_vars >>

\* axum::serve returns once the in-flight requests have completed and the
\* connections are closed: an SSE response is in flight until its client
\* disconnects.
serve_finish ==
    /\ phase = "Draining"
    /\ \A r \in Slots : ~InFlight(r)
    /\ \A k \in Subs : subs[k].state # "open"
    /\ phase' = "Stopped"
    /\ UNCHANGED tool_vars
    /\ UNCHANGED << tmux_session, subs, session_to_pane, table_lock, inbox, req,
                    accepted, clock, watchdog, session_alive, shutdown_sent,
                    ctrl_c, last_check >>
    /\ UNCHANGED << logger_vars, outbox_vars >>

(***************************************************************************)
(* Specifications: the ingestion handlers with the logger (Spec), the      *)
(* handlers over the session_to_pane table (TableSpec), the publishing     *)
(* handlers with the SSE subscribers (InboxSpec), the outbox handler with  *)
(* the logger (OutboxSpec), and the listener with the watchdog and the     *)
(* open SSE streams (LifeSpec).  Only Spec explores the writer's failures: *)
(* the others take the log file, once opened, to be writable.              *)
(***************************************************************************)
Writer ==
    \/ \E ok \in BOOLEAN : writer_task_open(ok)
    \/ \E outcome \in WriteOutcomes : writer_task_recv(outcome)

IngestHandlers(r) ==
    \/ event_tx_send_wake(r)
    \/ inbox_tx_send(r)
    \/ handle_hook_event_record(r)
    \/ handle_hook_event_send(r)
    \/ handle_otel_event_with_pane(r)
    \/ handle_otel_event(r)

Next ==
    \/ serve_start
    \/ \E r \in Slots : Accept(r, IngestRequests)
    \/ \E r \in Slots : IngestHandlers(r)
    \/ Writer

\* The ingestion handlers never read tmux_session: Spec runs them with none.
IngestInit == Init /\ tmux_session = ""

Spec == IngestInit /\ [][Next]_vars

\* The hook handlers and the direct OTEL handler over the session_to_pane
\* table, with a writable log file.
TableHandlers(r) ==
    \/ event_tx_send_wake(r)
    \/ inbox_tx_send(r)
    \/ handle_hook_event_record(r)
    \/ handle_hook_event_send(r)
    \/ handle_otel_event_with_pane(r)

TableNext ==
    \/ serve_start
    \/ \E r \in Slots : Accept(r, TableRequests)
    \/ \E r \in Slots : TableHandlers(r)
    \/ \E ok \in BOOLEAN : writer_task_open(ok)
    \/ writer_task_recv("ok")

TableSpec == IngestInit /\ [][TableNext]_vars

\* The events the SSE subscribers are sent: one direct OTEL event and one
\* hook event, each with its own timestamp.
InboxRequests ==
    { Request("otel_pane", "Logs", "p2", DocTraces),
      Request("hook", "", "p1", HookStop) }

\* The publishing handlers with the SSE subscribers.
InboxNext ==
    \/ serve_start
    \/ \E r \in Slots : Accept(r, InboxRequests)
    \/ \E r \in Slots :
         \/ event_tx_send_wake(r)
         \/ inbox_tx_send(r)
         \/ handle_hook_event_send(r)
         \/ handle_otel_event_with_pane(r)
    \/ writer_task_open(TRUE)
    \/ writer_task_recv("ok")
    \/ \E k \in Subs :
         \/ handle_inbox_sse(k)
         \/ sse_recv(k)
         \/ sse_disconnect(k)

\* The subscribers never see the logger: InboxSpec runs it with the smallest
\* queue, on which the handlers wait most.
InboxInit == IngestInit /\ capacity = 1

InboxSpec == InboxInit /\ [][InboxNext]_vars

OutboxHandlers(r) ==
    \/ event_tx_send_wake(r)
    \/ handle_outbox(r)
    \/ handle_outbox_broadcast(r)
    \/ \E outcome \in CommandOutcomes :
         \/ handle_outbox_send_text(r, outcome)
         \/ handle_outbox_send_enter(r, outcome)
         \/ handle_outbox_write_file(r, outcome)

OutboxNext ==
    \/ serve_start
    \/ \E r \in OutboxSlots : Accept(r, OutboxRequests)
    \/ \E r \in OutboxSlots : OutboxHandlers(r)
    \/ \E ok \in BOOLEAN : writer_task_open(ok)
    \/ writer_task_recv("ok")

OutboxSpec == Init /\ [][OutboxNext]_vars

LifeNext ==
    \/ serve_start
    \/ session_ends
    \/ \E outcome \in CommandOutcomes : session_watchdog(outcome)
    \/ ctrl_c_arrives
    \/ shutdown_signal
    \/ serve_finish
    \/ \E r \in Slots : Accept(r, HealthRequests)
    \/ \E r \in Slots : health_check(r)
    \/ \E k \in Subs : handle_inbox_sse(k)
    \/ \E k \in Subs : sse_disconnect(k)

LifeSpec == Init /\ [][LifeNext]_vars

(***************************************************************************)
(* The ingestion handlers and the writer while the server is shut down.    *)
(* When run_server returns, the queue's senders are dropped and its        *)
(* callers drop the runtime: the writer task drains the queue until it is  *)
(* cancelled.                                                              *)
(***************************************************************************)
DrainNext ==
    \/ serve_start
    \/ \E r \in Slots : Accept(r, InboxRequests)
    \/ \E r \in Slots :
         \/ event_tx_send_wake(r)
         \/ inbox_tx_send(r)
         \/ handle_hook_event_send(r)
         \/ handle_otel_event_with_pane(r)
    \/ \E ok \in BOOLEAN : writer_task_open(ok)
    \/ \E outcome \in WriteOutcomes : writer_task_recv(outcome)
    \/ writer_task_end
    \/ runtime_dropped
    \/ ctrl_c_arrives
    \/ shutdown_signal
    \/ serve_finish

DrainSpec == IngestInit /\ [][DrainNext]_vars

(***************************************************************************)
(* Every route of create_router, with no monitored session.                *)
(***************************************************************************)
FrameNext ==
    \/ serve_start
    \/ \E r \in Slots : Accept(r, FrameRequests)
    \/ \E r \in Slots :
         \/ health_check(r)
         \/ IngestHandlers(r)
         \/ handle_outbox(r)
         \/ handle_outbox_broadcast(r)
         \/ handle_outbox_write_file(r, "ok")
    \/ handle_inbox_sse("a")
    \/ writer_task_open(TRUE)
    \/ writer_task_recv("ok")

FrameSpec == InboxInit /\ [][FrameNext]_vars

(***************************************************************************)
(* The four handlers that submit to the logger, with a log file that may   *)
(* fail to open and the outbox handler's deliveries.                       *)
(***************************************************************************)
SubmitRequests ==
    { Request("hook", "", "p1", HookStart("s1")),
      Request("otel_pane", "Logs", "p2", DocTraces),
      Request("otel", "Traces", "", DocTraces),
      Request("otel", "Logs", "", DocLogs("s1")),
      Request("outbox", "", "", OutboxBody("s1", "y")) }

SubmitNext ==
    \/ serve_start
    \/ \E r \in Slots : Accept(r, SubmitRequests)
    \/ \E r \in Slots :
         \/ IngestHandlers(r)
         \/ handle_outbox(r)
         \/ handle_outbox_broadcast(r)
         \/ \E outcome \in CommandOutcomes :
              \/ handle_outbox_send_text(r, outcome)
              \/ handle_outbox_send_enter(r, outcome)
         \/ handle_outbox_write_file(r, "ok")
    \/ \E ok \in BOOLEAN : writer_task_open(ok)
    \/ writer_task_recv("ok")

\* With or without a tmux session, and the smallest queue.
SubmitInit == Init /\ capacity = 1

SubmitSpec == SubmitInit /\ [][SubmitNext]_vars

(***************************************************************************)
(* claude.rs: a caller builds one command.                                 *)
(***************************************************************************)
\* One builder method is called on the command.
ClaudeCall(method, arg, next) ==
    /\ built = None
    /\ Len(calls) < MaxCalls
    /\ cmd' = next
    /\ calls' = Append(calls, << method, arg >>)
    /\ UNCHANGED << built, walk_doc, walk_out, server_vars >>

call_allowed_tools(tools) ==
    ClaudeCall("allowed_tools", tools, ClaudeCommand_allowed_tools(cmd, tools))
call_disallowed_tools(tools) ==
    ClaudeCall("disallowed_tools", tools, ClaudeCommand_disallowed_tools(cmd, tools))
call_model(model) ==
    ClaudeCall("model", model, ClaudeCommand_model(cmd, model))
call_resume(session_id) ==
    ClaudeCall("resume", session_id, ClaudeCommand_resume(cmd, session_id))
call_prompt(prompt) ==
    ClaudeCall("prompt", prompt, ClaudeCommand_prompt(cmd, prompt))
call_extra_arg(arg) ==
    ClaudeCall("extra_arg", arg, ClaudeCommand_extra_arg(cmd, arg))

\* build() consumes the command.
call_build ==
    /\ built = None
    /\ built' = Some(ClaudeCommand_build(cmd))
    /\ UNCHANGED << cmd, calls, walk_doc, walk_out, server_vars >>

BuildNext ==
    \/ \E tools \in ToolLists : call_allowed_tools(tools)
    \/ \E tools \in DenyLists : call_disallowed_tools(tools)
    \/ \E model \in Models : call_model(model)
    \/ \E session_id \in ResumeIds : call_resume(session_id)
    \/ \E prompt \in Prompts : call_prompt(prompt)
    \/ \E arg \in ExtraArgs : call_extra_arg(arg)
    \/ call_build

BuildSpec == InboxInit /\ [][BuildNext]_vars

(***************************************************************************)
(* routes.rs: extract_otel_session_id called on a document.                *)
(***************************************************************************)
call_extract_otel_session_id ==
    /\ walk_out = None
    /\ walk_out' = Some(extract_otel_session_id(walk_doc))
    /\ UNCHANGED << cmd, calls, built, walk_doc, server_vars >>

WalkNext == call_extract_otel_session_id

WalkInit ==
    /\ ServerInit /\ tmux_session = "" /\ capacity = 1
    /\ ClaudeIdle
    /\ walk_doc \in WalkDocs
    /\ walk_out = None

WalkSpec == WalkInit /\ [][WalkNext]_vars

(***************************************************************************)
(* Properties.                                                             *)
(***************************************************************************)
Range(seq) == { seq[i] : i \in 1..Len(seq) }

\* The request of slot r has ended: with a response, or with a panic.
Ended(r) == req[r].pc \in {"done", "panicked"}

\* The events of the log file's JSON texts, as a reader parses them.
FileEvents == { from_str(file[i].json) : i \in { j \in 1..Len(file) : ~file[j].nl } }

\* C1: submitting an event to the logger never suspends the handler: no
\* handler ever waits in send() for the writer to make room (a full queue
\* drops the event instead).
C1_SubmitNeverBlocks ==
    \A r \in Slots : req[r].pc # "send_wait"

\* C2: when the writer has drained the queue, no handler is still waiting to
\* send and no file operation has failed, the log file holds exactly one line
\* per submitted event, the i-th line parsing back to the i-th event
\* submitted (timestamp, event kind, correlation id and payload).
C2_LogHoldsSubmitted ==
    ( /\ writer = "running" /\ event_q = << >> /\ ~io_failed
      /\ \A r \in Slots : req[r].pc # "send_wait" )
    => /\ wbuf = << >>
       /\ Len(LinesOf(file, << >>)) = Len(submitted)
       /\ \A i \in 1..Len(submitted) :
            /\ Len(LinesOf(file, << >>)[i]) = 1
            /\ from_str(LinesOf(file, << >>)[i][1]) = submitted[i]

\* Two events with different correlation ids were submitted and the writer
\* has drained both with no failure.
C2_Witness ==
    /\ writer = "running" /\ event_q = << >> /\ ~io_failed
    /\ Len(submitted) >= 2
    /\ Len(file) = 2 * Len(submitted)
    /\ submitted[1].pane_id # submitted[2].pane_id

\* C3: a legacy metrics request whose document carries a session id that a
\* hook event answered 200 had recorded for pane p ends with 200 and its
\* event is logged with correlation id p.
C3_LegacyMetricsCorrelated ==
    \A r \in Slots :
      ( /\ req[r].ep = "otel" /\ req[r].signal = "Metrics"
        /\ req[r].expect # None
        /\ Ended(r) /\ ~Closed )
      => /\ req[r].status = 200
         /\ req[r].event.pane_id = req[r].expect[1]
         /\ req[r].event \in Range(submitted)

\* C4: a legacy OTEL request whose document carries a session id that the
\* Correlation Table does not hold ends with 200, its event logged and
\* broadcast with correlation id "otel".
C4_UnknownSessionFiledUnderOtel ==
    \A r \in Slots :
      ( /\ req[r].ep = "otel"
        /\ extract_otel_session_id(req[r].body) # None
        /\ resolve_pane(extract_otel_session_id(req[r].body), session_to_pane) = "otel"
        /\ Ended(r) /\ ~Closed )
      => /\ req[r].status = 200
         /\ req[r].event.pane_id = "otel"
         /\ req[r].event \in Range(submitted)
         /\ req[r].event \in Range(inbox)

\* C5: every event in the logger queue, in the log file or handed to the
\* broadcast channel has a non-empty correlation id.
C5_CorrelationIdNonEmpty ==
    /\ \A i \in 1..Len(event_q) : event_q[i].pane_id # ""
    /\ \A i \in 1..Len(inbox) : inbox[i].pane_id # ""
    /\ \A e \in FileEvents : e.pane_id # ""

\* LifeSpec with the scheduling of the runtime: a task that can run is run.
LifeFair ==
    /\ LifeSpec
    /\ WF_vars(serve_start)
    /\ WF_vars(shutdown_signal)
    /\ WF_vars(serve_finish)
    /\ \A r \in Slots : WF_vars(health_check(r))

Stopping == phase \in {"Draining", "Stopped"}

\* C6: with a monitored session, the poll whose check reports the session
\* absent is the poll that signals (the watchdog is done and the signal is
\* in the channel, unless the listener has already stopped waiting); the
\* server then eventually begins graceful shutdown; and from then on no
\* connection is accepted, the server does not run again, and it stops only
\* when the requests in flight have completed.
C6_WatchdogTriggersShutdown ==
    /\ [](last_check.outcome = "failed"
            => watchdog = "done" /\ (shutdown_sent \/ Stopping))
    /\ (last_check.outcome = "failed") ~> Stopping
    /\ [][Stopping => accepted' = accepted /\ Stopping']_vars
    /\ [][(Stopping /\ \E r \in Slots : InFlight(r)) => phase' = "Draining"]_vars

\* The watchdog found the monitored session gone and the server is draining
\* with a request in flight.
C6_Witness ==
    /\ tmux_session # ""
    /\ last_check = [outcome |-> "failed", alive |-> FALSE]
    /\ phase = "Draining" /\ ~ctrl_c
    /\ \E r \in Slots : InFlight(r)

\* C7 as stated: after a check that exited non-zero while the monitored
\* session still existed, the watchdog has sent no signal and goes on polling.
C7_TransientFailureKeepsRunning ==
    (last_check.outcome = "failed" /\ last_check.alive)
    => ~shutdown_sent /\ watchdog = "polling"

\* C7 as amended: a check that could not be run is taken for "still running"
\* (no signal, the watchdog polls on), and a check that ran and exited
\* non-zero ends the watchdog with the signal sent, whether the session still
\* existed or not.
C7_OnlyUnrunCheckKeepsRunning ==
    /\ last_check.outcome = "error" => ~shutdown_sent /\ watchdog = "polling"
    /\ last_check.outcome = "failed"
         => watchdog = "done" /\ (shutdown_sent \/ Stopping)

\* The check could not be run while the session existed and the server ran.
C7_Witness ==
    /\ last_check = [outcome |-> "error", alive |-> TRUE]
    /\ phase = "Running"

\* C8: with no session name configured there is no watchdog and no shutdown
\* signal, and the server has left Running only after the operator interrupt.
C8_NoSessionNoWatchdog ==
    tmux_session = ""
    => /\ watchdog = "none"
       /\ last_check.outcome = "none"
       /\ ~shutdown_sent
       /\ Stopping => ctrl_c

\* No session is configured and the server has stopped on Ctrl+C after
\* serving a request.
C8_Witness ==
    /\ tmux_session = "" /\ phase = "Stopped" /\ ctrl_c /\ accepted > 0

\* A delivery of the request of slot r has been attempted, or is the
\* handler's next step.
AtDelivery(r) ==
    req[r].pc \in {"send_text", "send_enter", "write_file"} \/ req[r].delivery # << >>

\* C9: an outbox handler that is at its delivery, or has attempted one, has
\* had its event accepted by the logger and has broadcast it; this stays so
\* when the delivery has failed and the handler has answered 500.
C9_LoggedBeforeDelivery ==
    \A r \in OutboxSlots :
      AtDelivery(r)
      => /\ req[r].event \in Range(submitted)
         /\ req[r].event \in Range(inbox)

\* A delivery has failed with 500 and the event is logged and broadcast.
C9_Witness ==
    \E r \in OutboxSlots :
      /\ req[r].status = 500 /\ req[r].delivery # << >>
      /\ req[r].event \in Range(submitted)
      /\ req[r].event \in Range(inbox)

\* C10: an outbox handler that attempted a delivery answers 500 when any
\* step of the delivery did not succeed, and 200 only when every step did.
C10_DeliveryFailureIs500 ==
    \A r \in OutboxSlots :
      (req[r].pc = "done" /\ req[r].delivery # << >>)
      => (req[r].status = 200
            <=> \A i \in 1..Len(req[r].delivery) : req[r].delivery[i] = "ok")

\* The outbox request of slot r has ended and its body was an OutboxResponse.
OutboxEnded(r) ==
    /\ req[r].ep = "outbox" /\ req[r].pc = "done"
    /\ OutboxResponse_from_value(req[r].body) # None

C12_MalformedOutboxIs400 ==
    \A r \in OutboxSlots :
      ( /\ req[r].ep = "outbox" /\ req[r].pc = "done"
        /\ OutboxResponse_from_value(req[r].body) = None )
      => /\ req[r].status = 400
         /\ req[r].event = NoEvent
         /\ req[r].delivery = << >>

\* The seven hook kinds, spelled as Display prints them.
HookKinds ==
    { "PreToolUse", "PostToolUse", "SessionStart", "SessionEnd", "Stop",
      "SubagentStop", "PermissionRequest" }

\* The hook request of slot r has been answered, the logger's channel open.
HookEnded(r) == req[r].ep = "hook" /\ req[r].pc = "done" /\ ~Closed

\* C13: a hook request whose body names its type by one of the seven kinds,
\* spelled as in HookKinds, is answered 200 and its event, logged once, has
\* that kind and the pane id of the URL.
C13_CamelCaseKindIsLogged ==
    \A r \in Slots :
      ( /\ HookEnded(r)
        /\ GetStr(req[r].body, "type") # None
        /\ GetStr(req[r].body, "type")[1] \in HookKinds )
      => /\ req[r].status = 200
         /\ req[r].event.event_type = GetStr(req[r].body, "type")[1]
         /\ req[r].event.pane_id = req[r].pane
         /\ Cardinality({ i \in 1..Len(submitted) : submitted[i] = req[r].event }) = 1

Records(r) == req[r].pc = "start" /\ req'[r].pc = "locked"

OtelKind(signal) ==
    IF signal = "Metrics" THEN "otel_metrics"
    ELSE IF signal = "Traces" THEN "otel_traces" ELSE "otel_logs"

\* C18: the event of a request to /v1/<signal>/{pane_id} has the pane id of
\* the URL as its correlation id, the kind of its signal and the body as its
\* payload, whatever the table and the payload hold; no step of such a
\* request changes the table or takes its lock.
C18_DirectOtelUsesUrlPane ==
    /\ [](\A r \in Slots :
            (req[r].ep = "otel_pane" /\ req[r].event # NoEvent)
            => /\ req[r].event.pane_id = req[r].pane
               /\ req[r].event.event_type = OtelKind(req[r].signal)
               /\ req[r].event.event = req[r].body)
    /\ [][\A r \in Slots :
            (req[r].ep = "otel_pane" /\ req'[r] # req[r])
            => /\ session_to_pane' = session_to_pane
               /\ table_lock' = table_lock]_vars

\* A direct OTEL request for pane p2 has built its event while the table
\* maps its payload's session id to pane p1.
C18_Witness ==
    \E r \in Slots :
      /\ req[r].ep = "otel_pane" /\ req[r].pane = "p2"
      /\ req[r].event # NoEvent
      /\ extract_otel_session_id(req[r].body) = Some("s1")
      /\ session_to_pane["s1"] = Some("p1")

\* C19: no handler panics, and every handler that has ended has answered
\* with an HTTP status and a plain-text reason.
C19_EveryRequestAnswered ==
    \A r \in Slots :
      /\ req[r].pc # "panicked"
      /\ req[r].pc = "done"
         => req[r].status \in {200, 400, 422, 500} /\ req[r].reason # ""

\* The frames of the events sent from position lo to position hi.
FramesOf(lo, hi) == [i \in 1..(hi - lo + 1) |-> to_string(inbox[lo + i - 1])]

\* C15 as stated: what a subscriber has been written is, in order, every
\* event sent since it subscribed, up to its receiver's position.
C15_SubscriberGetsEverything ==
    \A k \in Subs :
      subs[k].state # "none"
      => /\ subs[k].next <= Len(inbox) + 1
         /\ subs[k].got = FramesOf(subs[k].from + 1, subs[k].next - 1)

\* C15 as amended: the same, for a subscriber whose receiver has never
\* fallen behind by more than the channel holds.
C15_UnlaggedSubscriberGetsEverything ==
    \A k \in Subs :
      (subs[k].state # "none" /\ ~subs[k].lagged)
      => /\ subs[k].next <= Len(inbox) + 1
         /\ subs[k].got = FramesOf(subs[k].from + 1, subs[k].next - 1)

\* Two subscribers, one connected before any event and one after the first,
\* have each been written every event sent since.
C15_Witness ==
    /\ Len(inbox) = 2
    /\ \E j, k \in Subs :
         /\ subs[j].from = 0 /\ Len(subs[j].got) = 2 /\ ~subs[j].lagged
         /\ subs[k].from = 1 /\ Len(subs[k].got) = 1 /\ ~subs[k].lagged
         /\ subs[j].got[2] = subs[k].got[1]

\* A step of subscriber k alone: it lags, receives or disconnects.
SubscriberStep(k) == subs'[k] # subs[k] /\ subs[k].state = "open"

\* C16: what a subscriber has been written is a subsequence of the events
\* sent since it subscribed (positions strictly increasing, each frame the
\* event of its position); a receiver that has lagged has moved past the
\* events it missed; a handler at its broadcast can always take that step,
\* whatever the subscribers do; and a step of one subscriber changes
\* neither the events sent, nor a handler, nor another subscriber.
C16_LaggingSubscriberSkips ==
    /\ [](\A k \in Subs :
            /\ Len(subs[k].got) = Len(subs[k].at)
            /\ \A i \in 1..Len(subs[k].at) :
                 /\ subs[k].at[i] \in (subs[k].from + 1)..Len(inbox)
                 /\ subs[k].at[i] < subs[k].next
                 /\ i > 1 => subs[k].at[i - 1] < subs[k].at[i]
                 /\ subs[k].got[i] = to_string(inbox[subs[k].at[i]])
            /\ subs[k].lagged
               => subs[k].next - 1 - subs[k].from > Len(subs[k].got))
    /\ [](\A r \in Slots :
            (req[r].pc = "bcast" /\ req[r].ep # "outbox")
            => ENABLED inbox_tx_send(r))
    /\ [][\A k \in Subs :
            SubscriberStep(k)
            => /\ inbox' = inbox /\ req' = req /\ event_q' = event_q
               /\ \A j \in Subs \ {k} : subs'[j] = subs[j]]_vars

\* One subscriber fell behind, skipped the first event and was written the
\* second, while the other was written both.
C16_Witness ==
    \E j, k \in Subs :
      /\ subs[j].lagged /\ subs[j].from = 0 /\ subs[j].at = << 2 >>
      /\ subs[k].from = 0 /\ subs[k].at = << 1, 2 >>

\* C20: once the server is Draining it eventually reaches Stopped, whether
\* or not a client keeps its SSE stream open.
C20_DrainingReachesStopped ==
    (phase = "Draining") ~> (phase = "Stopped")

(***************************************************************************)
(* The writer after a failed write or flush                                *)
(***************************************************************************)
\* C21: a write or flush failure leaves the writer running: the failing turn
\* takes only its own envelope off the queue, the writer never leaves the
\* loop once it has opened the file, and every request a handler answers
\* while the writer runs is answered 200.
C21_WriteFailureKeepsWriterRunning ==
    /\ [][ writer = "running" => writer' = "running" ]_vars
    /\ [][ (io_failed' /\ ~io_failed /\ writer = "running")
           => (event_q' = Tail(event_q) /\ writer' = "running") ]_vars
    /\ [](\A r \in Slots :
            ( /\ req[r].pc = "done" /\ req[r].reason # "rejected"
              /\ writer = "running" )
            => req[r].status = 200)

\* The first submitted event was lost to a failed write, and the writer went
\* on to write the second, whose handler answered 200.
C21_Witness ==
    /\ io_failed /\ writer = "running"
    /\ Len(submitted) = 2 /\ event_q = << >> /\ wbuf = << >>
    /\ submitted[1] \notin FileEvents
    /\ submitted[2] \in FileEvents
    /\ \E r \in Slots :
         /\ req[r].pc = "done" /\ req[r].status = 200
         /\ req[r].event = submitted[2]

(***************************************************************************)
(* The responses of the hook handler                                       *)
(***************************************************************************)
\* C22: every request the hook handler has answered was answered 200 with
\* its envelope accepted by the logger queue, or 500 "Failed to log event"
\* with the queue closed and the envelope neither queued nor broadcast;
\* publishing to zero subscribers still gives 200.
C22_HookAnswers200UnlessQueueClosed ==
    \A r \in Slots :
      ( /\ req[r].ep = "hook" /\ req[r].pc = "done"
        /\ req[r].reason # "rejected" )
      => \/ /\ req[r].status = 200
            /\ req[r].event \in Range(submitted)
            /\ req[r].event \in Range(inbox)
         \/ /\ req[r].status = 500 /\ req[r].reason = "Failed to log event"
            /\ Closed
            /\ req[r].event \notin Range(submitted)
            /\ req[r].event \notin Range(inbox)

\* A hook event was published while no subscriber was connected, answered
\* 200 and written to the log file.
C22_Witness ==
    /\ broadcast_send_is_err(subs)
    /\ \E r \in Slots :
         /\ req[r].ep = "hook" /\ req[r].pc = "done" /\ req[r].status = 200
         /\ req[r].event \in Range(inbox)
         /\ req[r].event \in FileEvents

(***************************************************************************)
(* ClaudeCommand::build                                                    *)
(***************************************************************************)
\* The argument of the last call of a method, None if it was never called.
RECURSIVE LastArg(_, _)
LastArg(history, method) ==
    IF history = << >> THEN None
    ELSE IF history[Len(history)][1] = method
         THEN Some(history[Len(history)][2])
         ELSE LastArg(SubSeq(history, 1, Len(history) - 1), method)

\* The arguments of the calls of extra_arg, each behind one space, in the
\* order of the calls.
RECURSIVE ExtraText(_)
ExtraText(history) ==
    IF history = << >> THEN << >>
    ELSE (IF Head(history)[1] = "extra_arg" THEN Space \o Head(history)[2]
          ELSE << >>)
         \o ExtraText(Tail(history))

\* A tool list written with commas.
RECURSIVE CommaList(_)
CommaList(tools) ==
    IF Len(tools) = 1 THEN tools[1]
    ELSE CommaList(SubSeq(tools, 1, Len(tools) - 1)) \o Comma \o tools[Len(tools)]

\* " flag value" for a list option that was set to a non-empty list.
ListOption(history, method, flag) ==
    IF LastArg(history, method) \in {None, Some(<< >>)} THEN << >>
    ELSE Space \o << flag >> \o Space \o CommaList(LastArg(history, method)[1])

\* " flag value" for a string option that was set.
StringOption(history, method, flag) ==
    IF LastArg(history, method) = None THEN << >>
    ELSE Space \o << flag >> \o Space \o LastArg(history, method)[1]

\* What a POSIX shell reads from a word, outside quotes (FALSE) or inside
\* single quotes (TRUE): a quote opens or closes, a backslash outside quotes
\* makes the next character literal, anything else stands for itself.
RECURSIVE ShellValue(_, _)
ShellValue(word, quoted) ==
    IF word = << >> THEN << >>
    ELSE IF << Head(word) >> = Quote THEN ShellValue(Tail(word), ~quoted)
    ELSE IF ~quoted /\ << Head(word) >> = Backslash /\ Len(word) >= 2
         THEN << word[2] >> \o ShellValue(SubSeq(word, 3, Len(word)), quoted)
    ELSE << Head(word) >> \o ShellValue(Tail(word), quoted)

\* The text before the prompt, from the calls made.
BeforePrompt(history) ==
    << "claude" >>
    \o ListOption(history, "allowed_tools", "--allowedTools")
    \o ListOption(history, "disallowed_tools", "--disallowedTools")
    \o StringOption(history, "model", "--model")
    \o StringOption(history, "resume", "--resume")
    \o ExtraText(history)

\* C23: whatever the order of the builder calls, build() returns "claude",
\* then --allowedTools and --disallowedTools with their comma-joined lists,
\* --model and --resume, each only if set (last call wins, empty list is
\* unset), then the extra arguments in call order, then the prompt as one
\* word that starts and ends with a single quote and that a shell reads back
\* as the prompt, all separated by single spaces.
C23_BuildOrderIsFixed ==
    built # None =>
      IF LastArg(calls, "prompt") = None
      THEN built[1] = BeforePrompt(calls)
      ELSE LET n == Len(BeforePrompt(calls))
               word == SubSeq(built[1], n + 2, Len(built[1]))
           IN  /\ Len(built[1]) >= n + 3
               /\ SubSeq(built[1], 1, n + 1) = BeforePrompt(calls) \o Space
               /\ << word[1] >> = Quote /\ << word[Len(word)] >> = Quote
               /\ ShellValue(word, FALSE) = LastArg(calls, "prompt")[1]

\* The prompt (one with a quote in it) was set before the model and an extra
\* argument, and the command was built.
C23_Witness ==
    /\ built # None
    /\ Len(calls) = 3
    /\ calls[1] = << "prompt", << "it", "'", "s" >> >>
    /\ calls[2][1] = "extra_arg"
    /\ calls[3][1] = "model"

(***************************************************************************)
(* The order of the log file and the order of the broadcasts               *)
(***************************************************************************)
\* The place of an event's JSON text in the log file.
FilePos(event) ==
    CHOOSE p \in 1..Len(file) : ~file[p].nl /\ from_str(file[p].json) = event

\* Both events sent as the i-th and the j-th broadcast are in the log file.
BothLogged(i, j) == inbox[i] \in FileEvents /\ inbox[j] \in FileEvents

\* C24 as claimed: two events that are both logged and broadcast are in the
\* log file in the order of their broadcasts, which is the order every SSE
\* subscriber receives them in.
C24_LogOrderIsBroadcastOrder ==
    \A i, j \in 1..Len(inbox) :
      (i < j /\ BothLogged(i, j)) => FilePos(inbox[i]) < FilePos(inbox[j])

\* The place of an event in the order the logger queue accepted them.
SubmittedPos(event) == CHOOSE p \in 1..Len(submitted) : submitted[p] = event

\* C24: the log file holds the events in the order the logger queue
\* accepted them, and an event enters the queue behind every event that has
\* been broadcast by then: two events that are both logged and broadcast,
\* the first broadcast before the second entered the queue, are in the log
\* file in the order of their broadcasts.
C24_LogOrderOfSuccessiveHandlers ==
    /\ [](\A e1, e2 \in FileEvents :
            FilePos(e1) < FilePos(e2) => SubmittedPos(e1) < SubmittedPos(e2))
    /\ [][ Len(submitted') > Len(submitted)
           => /\ SubSeq(submitted', 1, Len(submitted)) = submitted
              /\ \A i \in 1..Len(inbox) : inbox[i] \in Range(submitted) ]_vars
    /\ [](\A i, j \in 1..Len(inbox) :
            ( /\ i < j /\ BothLogged(i, j)
              /\ \A r \in Slots : req[r].pc = "idle" \/ r = 1 )
            => FilePos(inbox[i]) < FilePos(inbox[j]))

\* Two requests were handled one after the other by the same task slot, and
\* their events are logged and broadcast in that order.
C24_Witness ==
    /\ Len(inbox) = 2
    /\ BothLogged(1, 2)
    /\ \A r \in Slots : req[r].pc = "idle" \/ r = 1
    /\ FilePos(inbox[1]) < FilePos(inbox[2])

(***************************************************************************)
(* Accepted events and the end of the server                               *)
(***************************************************************************)
\* The writer task has ended: it returned, or it was cancelled.
WriterEnded == writer \in {"exited", "cancelled"}

\* C25: once the server has stopped and the writer task has ended (nothing is
\* written after that), with no file operation having failed, the event of
\* every request an ingestion handler answered 200 is in the log file
\* followed by its newline.
C25_AcceptedIsWritten ==
    (phase = "Stopped" /\ WriterEnded /\ ~io_failed)
    => \A r \in Slots :
         (req[r].pc = "done" /\ req[r].status = 200 /\ req[r].ep # "health")
         => \E p \in 1..(Len(file) - 1) :
              /\ ~file[p].nl /\ from_str(file[p].json) = req[r].event
              /\ file[p + 1].nl

(***************************************************************************)
(* The attribute walk                                                      *)
(***************************************************************************)
RECURSIVE Concat(_)
Concat(seqs) == IF seqs = << >> THEN << >> ELSE Head(seqs) \o Concat(Tail(seqs))

\* The elements of the arrays found under key in the values, in order; a
\* value without such an array gives none.
Elements(vals, key) ==
    Concat([i \in 1..Len(vals) |->
              IF GetArray(vals[i], key) = None THEN << >>
              ELSE GetArray(vals[i], key)[1]])

\* The sum members of the metrics that have one.
Sums(metrics) ==
    Concat([i \in 1..Len(metrics) |->
              IF Get(metrics[i], "sum") = None THEN << >>
              ELSE << Get(metrics[i], "sum")[1] >>])

\* The attribute has key "session.id" and a string value.
IsSessionAttr(attr) ==
    /\ attr.t = "obj" /\ "key" \in DOMAIN attr.v /\ attr.v.key = JStr("session.id")
    /\ "value" \in DOMAIN attr.v /\ attr.v.value.t = "obj"
    /\ "stringValue" \in DOMAIN attr.v.value.v
    /\ attr.v.value.v.stringValue.t = "str"

\* The session ids of the metrics, in document order over sum.dataPoints
\* and attributes.
SessionIdsOf(metrics) ==
    LET attrs == Elements(Elements(Sums(metrics), "dataPoints"), "attributes")
        hits == SelectSeq(attrs, IsSessionAttr)
    IN  [i \in 1..Len(hits) |-> hits[i].v.value.v.stringValue.v]

\* Every session id of the document, in document order.
AllSessionIds(doc) ==
    SessionIdsOf(Elements(Elements(Elements(<< doc >>, "resourceMetrics"),
                                   "scopeMetrics"), "metrics"))

\* C26 as claimed: the walk returns the first session id of the document
\* whenever the document contains one, and no match otherwise.
C26_WalkFindsFirstSessionId ==
    walk_out # None
    => walk_out[1] = IF AllSessionIds(walk_doc) = << >> THEN None
                     ELSE Some(Head(AllSessionIds(walk_doc)))

\* What the walk meets, in document order: Some(s) for a session id s, and
\* None for an element of resourceMetrics without a scopeMetrics array and
\* for an element of scopeMetrics without a metrics array.
Stop == None
ScopeItems(sm) ==
    IF GetArray(sm, "metrics") = None THEN << Stop >>
    ELSE LET ids == SessionIdsOf(GetArray(sm, "metrics")[1])
         IN  [i \in 1..Len(ids) |-> Some(ids[i])]
ResourceItems(rm) ==
    IF GetArray(rm, "scopeMetrics") = None THEN << Stop >>
    ELSE LET sms == GetArray(rm, "scopeMetrics")[1]
         IN  Concat([i \in 1..Len(sms) |-> ScopeItems(sms[i])])
WalkItems(doc) ==
    LET rms == Elements(<< doc >>, "resourceMetrics")
    IN  Concat([i \in 1..Len(rms) |-> ResourceItems(rms[i])])

\* C26: the walk returns the first session id of the document unless an
\* element of resourceMetrics without scopeMetrics or an element of
\* scopeMetrics without metrics comes before it, and no match in every
\* other case.
C26_WalkFindsFirstBeforeGap ==
    walk_out # None
    => walk_out[1] = IF WalkItems(walk_doc) = << >> THEN None
                     ELSE Head(WalkItems(walk_doc))

\* The walk went past a gauge and an attribute with another key and
\* returned the session id behind them.
C26_Witness ==
    /\ walk_out = Some(Some("s2"))
    /\ Len(AllSessionIds(walk_doc)) = 1
    /\ Len(GetArray(walk_doc, "resourceMetrics")[1]) = 2

(***************************************************************************)
(* What changes the correlation table                                      *)
(***************************************************************************)
\* C27: a step that changes the table is the step of a hook handler whose
\* body carries a session_id; every other step (a hook event without
\* session_id, direct and legacy OTEL, outbox, SSE, health, the writer)
\* leaves it as it was; and no step takes an entry away.
C27_OnlyHookWithSessionIdChangesTable ==
    /\ [][ session_to_pane' # session_to_pane
           => \E r \in Slots :
                /\ req[r].ep = "hook" /\ req[r].pc = "start"
                /\ GetStr(req[r].body, "session_id") # None
                /\ req'[r].pc = "locked" ]_vars
    /\ [][ \A s \in SessionIds :
             session_to_pane[s] # None => session_to_pane'[s] # None ]_vars

\* A request that is no hook event has ended after a hook event put its
\* entry into the table, and the entry is there.
C27_Witness ==
    /\ session_to_pane["s1"] = Some("p1")
    /\ \E r \in Slots : Ended(r) /\ req[r].ep \in {"otel", "otel_pane", "outbox"}

(***************************************************************************)
(* The two tmux operations of an outbox delivery                           *)
(***************************************************************************)
\* The target the claim names for the outbox request of slot r.
ClaimedTarget(r) ==
    IF OutboxPayload(r).pane_id # None THEN << OutboxPayload(r).pane_id[1] >>
    ELSE << tmux_session, ":0.1" >>

\* C28: with a monitored session, a handler comes to send Enter only when
\* its text injection succeeded, and then tmux has delivered the response
\* text literally to the request's pane id if it has one and to pane 0.1 of
\* the session if not; when Enter succeeded too, tmux has delivered it
\* after the text and to the same target.
C28_TextThenEnterOnlyAfterText ==
    tmux_session # ""
    => \A r \in OutboxSlots :
         (req[r].ep = "outbox" /\ req[r].delivery # << >>)
         => /\ (req[r].pc = "send_enter" \/ Len(req[r].delivery) = 2)
               => /\ req[r].delivery[1] = "ok"
                  /\ \E i \in 1..Len(tmux_keys) :
                       tmux_keys[i] = << ClaimedTarget(r), "-l",
                                         OutboxPayload(r).response_text >>
            /\ req[r].delivery = << "ok", "ok" >>
               => \E i, j \in 1..Len(tmux_keys) :
                    /\ i < j
                    /\ tmux_keys[i] = << ClaimedTarget(r), "-l",
                                         OutboxPayload(r).response_text >>
                    /\ tmux_keys[j] = << ClaimedTarget(r), "", "Enter" >>

(***************************************************************************)
(* The watchdog's signal                                                   *)
(***************************************************************************)
\* C29: the signal is sent only by the watchdog's turn whose check ran and
\* did not succeed, and that turn ends the watchdog: after it there is no
\* further check and no further send, so the signal is sent at most once; a
\* turn whose check could not be run sends nothing and leaves the watchdog
\* polling, with its next check to come while the server has not stopped.
C29_WatchdogSignalsOnceThenEnds ==
    /\ [][ shutdown_sent' # shutdown_sent
           => /\ watchdog = "polling" /\ watchdog' = "done"
              /\ last_check'.outcome = "failed" ]_vars
    /\ [][ (watchdog = "done" \/ last_check.outcome = "failed")
           => /\ watchdog' = "done"
              /\ last_check' = last_check
              /\ shutdown_sent' = shutdown_sent ]_vars
    /\ [][ (last_check' # last_check /\ last_check'.outcome = "error")
           => (shutdown_sent' = shutdown_sent /\ watchdog' = "polling") ]_vars
    /\ []( (last_check.outcome = "error" /\ phase # "Stopped")
           => ENABLED session_watchdog("error") )

\* The watchdog signalled after a check that found the session gone, and the
\* server has drained and stopped with no further check.
C29_Witness ==
    /\ watchdog = "done" /\ shutdown_sent
    /\ last_check = [outcome |-> "failed", alive |-> FALSE]
    /\ phase = "Stopped" /\ ~ctrl_c

(***************************************************************************)
(* The phases of the server                                                *)
(***************************************************************************)
\* C30: the phase only moves forward, from Running to Draining to Stopped
\* (and into Running when serving starts); it leaves Running only with the
\* operator interrupt arrived or the watchdog's signal sent; a trigger that
\* fires while the server drains changes nothing of the phase; and from
\* Draining on no request and no SSE connection is accepted and the phase is
\* never Running again.
C30_PhasesOnlyForward ==
    /\ [][ phase' # phase
           => << phase, phase' >> \in { << "Starting", "Running" >>,
                                        << "Running", "Draining" >>,
                                        << "Draining", "Stopped" >> } ]_vars
    /\ [][ (phase = "Running" /\ phase' # "Running")
           => (ctrl_c \/ shutdown_sent) ]_vars
    /\ [][ (phase = "Draining" /\ (ctrl_c' # ctrl_c \/ last_check' # last_check))
           => (phase' = "Draining" /\ shutdown_sent' = shutdown_sent) ]_vars
    /\ [][ (phase = "Draining" \/ phase = "Stopped")
           => ( /\ phase' # "Running"
                /\ accepted' = accepted
                /\ \A k \in Subs :
                     (subs'[k].state = "open" => subs[k].state = "open") ) ]_vars

\* The operator interrupt came first and the watchdog found the session
\* gone while the server drained; the server has stopped.
C30_Witness ==
    /\ phase = "Stopped" /\ ctrl_c
    /\ watchdog = "done" /\ last_check.outcome = "failed"
    /\ ~shutdown_sent
    /\ accepted > 0

\* C31: a shutdown signal the watchdog sends before the listener has started
\* to wait on the shutdown channel is not lost: it is still in the channel
\* when the listener starts to wait, and the server then begins graceful
\* shutdown.
C31_EarlySignalIsObserved ==
    /\ [][(phase = "Starting" /\ shutdown_sent) => shutdown_sent']_vars
    /\ (phase = "Starting" /\ shutdown_sent) ~> Stopping

C31_Witness ==
    /\ phase = "Starting"
    /\ watchdog = "done"
    /\ shutdown_sent
    /\ ~ctrl_c

\* C32: in every handler that submits to the logger (hook, outbox, direct
\* and legacy OTEL) an event is broadcast only after the logger queue has
\* accepted it: every event in the broadcast channel was submitted to the
\* logger before, a handler that is about to broadcast has submitted its
\* event, and a handler that found the logger queue closed has answered 500
\* and its event is neither in the queue's history nor in the broadcast
\* channel.
C32_BroadcastOnlyAfterSubmit ==
    /\ \A i \in 1..Len(inbox) : inbox[i] \in Range(submitted)
    /\ \A r \in Slots :
         /\ req[r].pc = "bcast" => req[r].event \in Range(submitted)
         /\ (req[r].pc = "done" /\ req[r].reason = "Failed to log event")
            => /\ req[r].status = 500
               /\ req[r].event \notin Range(submitted)
               /\ req[r].event \notin Range(inbox)

\* An outbox request was answered 500 on a closed queue after another
\* handler's event had been submitted and broadcast.
C32_Witness ==
    /\ Closed
    /\ inbox # << >>
    /\ \E r \in Slots :
         /\ req[r].ep = "outbox"
         /\ req[r].pc = "done"
         /\ req[r].status = 500

\* The handler of slot r is past the table: it submits to the logger, waits
\* on the logger queue, broadcasts, runs a tmux command or writes the
\* response file, or it has ended.
PastTable(r) ==
    req[r].pc \in {"send_wait", "bcast", "send_text", "send_enter",
                   "write_file", "done", "panicked"}

\* C33: no handler holds the session_to_pane lock while it submits to the
\* logger, broadcasts or delivers to the terminal: the lock is held only
\* between the hook handler's insert and the end of its block, so while a
\* handler waits on the logger queue the table is free or held by a handler
\* that needs nothing but its own next step to release it.
C33_NoLockAcrossSubmit ==
    /\ \A r \in Slots : PastTable(r) => table_lock # r
    /\ table_lock # 0 => req[table_lock].pc = "locked"
    /\ (\E r \in Slots : req[r].pc = "send_wait")
       => \/ table_lock = 0
          \/ ENABLED handle_hook_event_send(table_lock)

\* A hook handler that recorded its session id waits on the full logger
\* queue, and the table is free.
C33_Witness ==
    \E r \in Slots :
      /\ req[r].ep = "hook"
      /\ req[r].pc = "send_wait"
      /\ session_to_pane["s1"] = Some(req[r].pane)
      /\ table_lock = 0

(***************************************************************************)
(* The end of the writer task                                              *)
(***************************************************************************)
\* C34: the writer task stops running only once every sender of the logger
\* queue has been dropped and the queue is empty, every queued event having
\* been taken by a turn of its loop: while a sender is alive and the file is
\* open it keeps running, and events queued when the senders are dropped
\* are written before it ends.
C34_WriterDrainsThenEnds ==
    [][(writer = "running" /\ writer' # "running")
       => (SendersDropped /\ event_q = << >>)]_vars

(***************************************************************************)
(* The table entry of a hook event the logger refused                      *)
(***************************************************************************)
\* The handler of slot r handles a hook event whose body names a session.
HookWithSession(r) ==
    /\ req[r].ep = "hook"
    /\ req[r].reason # "rejected"
    /\ GetStr(req[r].body, "session_id") # None

\* C35: the hook handler records session_id -> pane_id before it submits the
\* event: the entry is the handler's own while it holds the lock, the
\* session id has an entry whenever the handler submits, waits, broadcasts
\* or has answered, and the step in which a handler answers 500 for a closed
\* logger queue leaves the table as it is, with the event neither logged nor
\* broadcast.
C35_MappingKeptOnLoggerFailure ==
    /\ [](\A r \in Slots :
            HookWithSession(r)
            => /\ req[r].pc = "locked"
                  => session_to_pane[GetStr(req[r].body, "session_id")[1]]
                     = Some(req[r].pane)
               /\ req[r].pc \in {"send_wait", "bcast", "done"}
                  => session_to_pane[GetStr(req[r].body, "session_id")[1]] # None
               /\ (req[r].pc = "done" /\ req[r].status = 500)
                  => /\ req[r].event \notin Range(submitted)
                     /\ req[r].event \notin Range(inbox))
    /\ [][(\E r \in Slots : req[r].pc # "done" /\ req'[r].pc = "done"
                            /\ req'[r].status = 500)
          => session_to_pane' = session_to_pane]_vars

\* A hook event was answered 500 and its session id maps to its pane.
C35_Witness ==
    \E r \in Slots :
      /\ HookWithSession(r)
      /\ req[r].pc = "done" /\ req[r].status = 500
      /\ session_to_pane[GetStr(req[r].body, "session_id")[1]] = Some(req[r].pane)
      /\ submitted = << >>

(***************************************************************************)
(* Legacy traces and logs                                                  *)
(***************************************************************************)
\* The request of slot r came to /v1/traces or /v1/logs with a document that
\* has no resourceMetrics array.
LegacyWithoutMetrics(r) ==
    /\ req[r].ep = "otel"
    /\ req[r].signal \in {"Traces", "Logs"}
    /\ GetArray(req[r].body, "resourceMetrics") = None

\* C36: a legacy traces or logs request whose document has no resourceMetrics
\* array is filed under "otel" whatever the table holds, and the table is
\* not read: its handler can take its step whoever holds the table's lock,
\* never panics in blocking_read, and the event it submits has the pane id
\* "otel" and the event type of its signal.
C36_LegacyTracesLogsUnderOtel ==
    \A r \in Slots :
      LegacyWithoutMetrics(r)
      => /\ req[r].pc # "panicked"
         /\ req[r].pc = "start" => ENABLED handle_otel_event(r)
         /\ req[r].pc \in {"send_wait", "bcast", "done"}
            => /\ req[r].event.pane_id = "otel"
               /\ req[r].event.event_type = OtelEventType_fmt(req[r].signal)
               /\ req[r].event.event = req[r].body

\* A logs request whose log record names session s1 was answered 200 and
\* filed under "otel" while the table maps s1 to a pane.
C36_Witness ==
    /\ session_to_pane["s1"] # None
    /\ \E r \in Slots :
         /\ LegacyWithoutMetrics(r)
         /\ req[r].signal = "Logs"
         /\ req[r].pc = "done" /\ req[r].status = 200
         /\ req[r].event.pane_id = "otel"
         /\ req[r].event \in Range(inbox)

============================================================================
